---- MODULE Spec2Model ----
(***************************************************************************)
(* A model of the CForge mini compiler as main.py runs it: Lexer.test on   *)
(* the text, Parser.parse (the ply driver on the tokens of the text, the   *)
(* grammar actions with the flat symbol table and printed diagnostics),    *)
(* LLVMIRGenerator.generate (lowering of the tree into functions, basic    *)
(* blocks and instructions through the llvmlite IRBuilder, the assembly of *)
(* the text and optimize_ir) and the unpacking of what generate returned.  *)
(*                                                                         *)
(* Python values are records tagged by k:                                  *)
(*   int      [k |-> "int", n]          float  [k |-> "float", n]          *)
(*   (n of a float: its integer part and the digits of its fraction)       *)
(*   str      [k |-> "str", s]          None   [k |-> "None"]              *)
(*   tuples   [k |-> <first element>, ...fields of the tuple]              *)
(* Python lists are sequences.                                             *)
(*                                                                         *)
(* Kept as state: the objects of the program and the diagnostics it        *)
(* prints.  Not kept: the progress messages it prints, the files it writes *)
(* (analysis/*.txt, *.ll, the picture of the tree), the text of the        *)
(* optimized module, and the run of nasmgenerator.py.                      *)
(***************************************************************************)
EXTENDS Integers, Sequences, FiniteSets, TLC

VARIABLES
    src,           \* the source text, as the sequence of its top-level items
    phase,         \* position of the driver (main.py): lex, start, parse, generate,
                   \* optimize, done (generate has ended), exit
    lexer_lexdata, \* Parser.lexer.lexer.lexdata: the text parse was called with
    lexer_lexpos,  \* Parser.lexer.lexer.lexpos, counted from 1
    symbol_table,  \* Parser.symbol_table
    diags,         \* diagnostics printed by the grammar actions, in order
    ast,           \* value returned by Parser.parse (None or a program)
    perr,          \* exception raised by Parser.parse ("none" when it returned)
    module,        \* LLVMIRGenerator.module: functions and globals
    builder,       \* LLVMIRGenerator.builder: None or the block it is positioned in
    function,      \* LLVMIRGenerator.function: None or a function of the module
    variables,     \* LLVMIRGenerator.variables
    functions,     \* LLVMIRGenerator.functions
    fmt_globals,   \* LLVMIRGenerator.fmt_globals
    frames,        \* Python call stack of the lowering methods (locals of each)
    gerr,          \* exception that ended generate ("none" while none was raised)
    tables,        \* SymbolTable.tables: the stack of scopes, outermost first
    st_ret,        \* SymbolTable: the last method call and how it ended
    lexdata,       \* Lexer.lexer.lexdata: the input, a sequence of characters
    lexpos,        \* Lexer.lexer.lexpos, counted from 1
    lineno,        \* Lexer.lexer.lineno
    toks,          \* Lexer.test: the tokens collected so far
    lexdiags,      \* Lexer.t_error: the illegal characters printed
    lexphase,      \* Lexer.test: idle, scanning, returned or raised
    lexer_lineno,  \* Parser.lexer.lexer.lineno
    earlier,       \* what an earlier call of parse on this Parser returned and printed
    conv,          \* a call of _convert_type by itself: its arguments, then its result
    hashseed,      \* the hash key of the interpreter, as the classes of strings it
                   \* gives one value of hash(s) & 0xffffffff (classes of one left out)
    gret,          \* what generate returned ("none" while it has not returned)
    merr           \* exception that ended main ("none" while none was raised)

compilerVars == <<src, phase, lexer_lexdata, lexer_lexpos, symbol_table, diags, ast, perr, module,
                  builder, function, variables, functions, fmt_globals, frames, gerr,
                  lexer_lineno>>
symtabVars == <<tables, st_ret>>
lexerVars == <<lexdata, lexpos, lineno, toks, lexdiags, lexphase>>
\* the objects a run of the compiler does not touch
callerVars == <<earlier, conv, hashseed>>
\* main.py: what it got from generate, and how it ended
mainVars == <<gret, merr>>
otherVars == <<symtabVars, lexerVars, callerVars, mainVars>>
vars == <<compilerVars, symtabVars, lexerVars, callerVars, mainVars>>

parserVars == <<lexer_lexdata, lexer_lexpos, symbol_table, diags, ast, perr, lexer_lineno>>
genVars == <<module, builder, function, variables, functions, fmt_globals, frames, gerr>>

None == [k |-> "None"]

-----------------------------------------------------------------------------
(* Python dict                                                             *)

EmptyDict == [n \in {} |-> None]
Put(d, key, val) == [n \in (DOMAIN d) \cup {key} |-> IF n = key THEN val ELSE d[n]]

-----------------------------------------------------------------------------
(* Parser: symbol table management and get_expr_type                       *)

add_symbol(tab, name, symbol_type) ==
    Put(tab, name, [type |-> symbol_type, scope |-> "global"])

symbol_already_declared(tab, name) == name \in DOMAIN tab

symbol_exists(tab, name) == name \in DOMAIN tab

Diag(st, kind, what) ==
    [st EXCEPT !.diags = Append(@, [kind |-> kind, what |-> what])]

RECURSIVE get_expr_type(_, _)
get_expr_type(expr, tab) ==
    CASE expr.k = "int" -> "int"
      [] expr.k = "float" -> "float"
      [] expr.k = "str" ->
            IF expr.s = "true" \/ expr.s = "false" THEN "bool"
            ELSE IF expr.s \in DOMAIN tab THEN tab[expr.s].type
            ELSE "string"
      [] expr.k = "binop" ->
            LET left_type == get_expr_type(expr.l, tab)
                right_type == get_expr_type(expr.r, tab)
            IN  IF expr.op = "+"
                THEN IF left_type = "string" \/ right_type = "string" THEN "string"
                     ELSE IF left_type = right_type THEN left_type
                     ELSE "error"
                ELSE IF left_type = right_type THEN left_type ELSE "error"
      [] expr.k = "unop" -> get_expr_type(expr.e, tab)
      [] expr.k = "function_call" -> "int"
      [] OTHER -> "unknown"

-----------------------------------------------------------------------------
(* Parser: the grammar actions.  Each takes the parser state               *)
(* st = [tab, diags] and p, the values p[1], p[2], ... of the right-hand   *)
(* side, and yields [v |-> p[0], st |-> the state after the action].  The  *)
(* value of a token is the Python value the lexer gave it; a name, an      *)
(* operator or a type that becomes a field of a tuple is kept as its text. *)

\* len(p) of the code counts p[0]
len(p) == Len(p) + 1

Text(s) == [k |-> "str", s |-> s]

p_program(st, p) == [v |-> [k |-> "program", body |-> p[1]], st |-> st]

p_statement_list(st, p) ==
    [v |-> IF len(p) = 2 THEN << p[1] >> ELSE Append(p[1], p[2]), st |-> st]

\* p_statement, p_function_call_statement, p_type, p_expression,
\* p_comparison_op and p_for_increment_expr: p[0] = p[1]
p_statement(st, p) == [v |-> p[1], st |-> st]

p_empty(st, p) == [v |-> None, st |-> st]

p_factor(st, p) == [v |-> IF len(p) = 2 THEN p[1] ELSE p[2], st |-> st]

p_term(st, p) ==
    IF len(p) = 2 THEN [v |-> p[1], st |-> st]
    ELSE LET left_type == get_expr_type(p[1], st.tab)
             right_type == get_expr_type(p[3], st.tab)
         IN  [v |-> [k |-> "binop", op |-> p[2].s, l |-> p[1], r |-> p[3]],
              st |-> IF left_type # right_type THEN Diag(st, "TypeMismatch", p[2].s) ELSE st]

p_arithmetic_expr(st, p) ==
    IF len(p) = 2 THEN [v |-> p[1], st |-> st]
    ELSE LET op == p[2].s
             left_type == get_expr_type(p[1], st.tab)
             right_type == get_expr_type(p[3], st.tab)
             node == [k |-> "binop", op |-> op, l |-> p[1], r |-> p[3]]
         IN  IF op = "+"
             THEN IF left_type = "string" /\ right_type = "string"
                     THEN [v |-> node, st |-> st]
                  ELSE IF left_type = right_type /\ left_type # "string"
                     THEN [v |-> node, st |-> st]
                  ELSE IF "string" \in {left_type, right_type}
                     THEN [v |-> [k |-> "error"], st |-> Diag(st, "TypeMismatch", op)]
                  ELSE [v |-> node, st |-> Diag(st, "TypeMismatch", op)]
             ELSE [v |-> node,
                   st |-> IF left_type # right_type THEN Diag(st, "TypeMismatch", op) ELSE st]

p_comparison_expr(st, p) ==
    IF len(p) = 2 THEN [v |-> p[1], st |-> st]
    ELSE LET left_type == get_expr_type(p[1], st.tab)
             right_type == get_expr_type(p[3], st.tab)
         IN  [v |-> [k |-> "comparison", op |-> p[2].s, l |-> p[1], r |-> p[3]],
              st |-> IF left_type # right_type THEN Diag(st, "TypeMismatch", p[2].s) ELSE st]

\* p[1] == '!' is tested before the number of symbols is, also for the
\* alternatives with AND and OR
p_logical_expr(st, p) ==
    IF len(p) = 2 THEN [v |-> p[1], st |-> st]
    ELSE IF p[1] = Text("!")
    THEN LET expr_type == get_expr_type(p[2], st.tab)
         IN  [v |-> [k |-> "unop", op |-> "!", e |-> p[2]],
              st |-> IF expr_type # "bool" THEN Diag(st, "TypeMismatch", "!") ELSE st]
    ELSE LET left_type == get_expr_type(p[1], st.tab)
             right_type == get_expr_type(p[3], st.tab)
         IN  [v |-> [k |-> "binop", op |-> p[2].s, l |-> p[1], r |-> p[3]],
              st |-> IF left_type # "bool" \/ right_type # "bool"
                     THEN Diag(st, "TypeMismatch", p[2].s) ELSE st]

\* the definition at line 243; the one at line 52 has the same body
p_function_call(st, p) ==
    LET name == p[1].s
    IN  [v |-> [k |-> "function_call", name |-> name, args |-> p[3]],
         st |-> IF ~symbol_exists(st.tab, name) \/ st.tab[name].type # "function"
                THEN Diag(st, "UndeclaredFunction", name)
                ELSE IF Len(st.tab[name].params) # Len(p[3])
                     THEN Diag(st, "ArgumentCount", name)
                     ELSE st]

p_argument_list(st, p) ==
    [v |-> IF len(p) = 1 THEN <<>>
           ELSE IF len(p) = 2 THEN << p[1] >>
           ELSE Append(p[1], p[3]),
     st |-> st]

p_declaration(st, p) ==
    LET ty == p[1].s
        name == p[2].s
        st1 == IF symbol_already_declared(st.tab, name)
               THEN Diag(st, "DuplicateDeclaration", name)
               ELSE [st EXCEPT !.tab = add_symbol(st.tab, name, ty)]
    IN  IF len(p) = 4
        THEN [v |-> [k |-> "declaration", ty |-> ty, name |-> name], st |-> st1]
        ELSE LET expr_type == get_expr_type(p[4], st1.tab)
             IN  [v |-> [k |-> "declaration_init", ty |-> ty, name |-> name, e |-> p[4]],
                  st |-> IF expr_type # ty THEN Diag(st1, "TypeMismatch", name) ELSE st1]

p_assignment(st, p) ==
    LET name == p[1].s
    IN  [v |-> [k |-> "assignment", name |-> name, e |-> p[3]],
         st |-> IF ~symbol_exists(st.tab, name)
                THEN Diag(st, "UndeclaredVariable", name)
                ELSE IF st.tab[name].type # get_expr_type(p[3], st.tab)
                     THEN Diag(st, "TypeMismatch", name)
                     ELSE st]

\* the same body as p_assignment
p_for_increment_assignment(st, p) == p_assignment(st, p)

\* the definition at line 221 replaces the one at line 65 in the class body
p_function_declaration(st, p) ==
    LET name == p[2].s
    IN  [v |-> [k |-> "function_declaration", name |-> name, params |-> p[4], body |-> p[7]],
         st |-> IF symbol_already_declared(st.tab, name)
                THEN Diag(st, "DuplicateDeclaration", name)
                ELSE [st EXCEPT !.tab =
                         Put(@, name, [type |-> "function", params |-> p[4], scope |-> "global"])]]

p_parameter_list(st, p) ==
    [v |-> IF len(p) = 1 THEN <<>>
           ELSE IF len(p) = 3 THEN << [ty |-> p[1].s, name |-> p[2].s] >>
           ELSE Append(p[1], [ty |-> p[3].s, name |-> p[4].s]),
     st |-> st]

p_conditional(st, p) ==
    [v |-> IF len(p) = 8 THEN [k |-> "if", c |-> p[3], body |-> p[6]]
           ELSE [k |-> "if_else", c |-> p[3], body |-> p[6], ebody |-> p[10]],
     st |-> st]

p_loop(st, p) ==
    [v |-> IF p[1] = Text("while") THEN [k |-> "while_loop", c |-> p[3], body |-> p[6]]
           ELSE [k |-> "for_loop", init |-> p[3], c |-> p[4], incr |-> p[6], body |-> p[9]],
     st |-> st]

p_return_statement(st, p) == [v |-> [k |-> "return", e |-> p[2]], st |-> st]

p_print_statement(st, p) == [v |-> [k |-> "print", e |-> p[3]], st |-> st]

p_read_statement(st, p) == [v |-> [k |-> "read"], st |-> st]

\* p.callable(pslice) of the driver: the method the production belongs to
Callable(callable, st, p) ==
    CASE callable = "p_program" -> p_program(st, p)
      [] callable = "p_statement_list" -> p_statement_list(st, p)
      [] callable \in {"p_statement", "p_function_call_statement", "p_type", "p_expression",
                       "p_comparison_op", "p_for_increment_expr"} -> p_statement(st, p)
      [] callable = "p_empty" -> p_empty(st, p)
      [] callable = "p_declaration" -> p_declaration(st, p)
      [] callable = "p_assignment" -> p_assignment(st, p)
      [] callable = "p_logical_expr" -> p_logical_expr(st, p)
      [] callable = "p_comparison_expr" -> p_comparison_expr(st, p)
      [] callable = "p_arithmetic_expr" -> p_arithmetic_expr(st, p)
      [] callable = "p_term" -> p_term(st, p)
      [] callable = "p_factor" -> p_factor(st, p)
      [] callable = "p_function_declaration" -> p_function_declaration(st, p)
      [] callable = "p_parameter_list" -> p_parameter_list(st, p)
      [] callable = "p_function_call" -> p_function_call(st, p)
      [] callable = "p_argument_list" -> p_argument_list(st, p)
      [] callable = "p_conditional" -> p_conditional(st, p)
      [] callable = "p_loop" -> p_loop(st, p)
      [] callable = "p_for_increment_assignment" -> p_for_increment_assignment(st, p)
      [] callable = "p_return_statement" -> p_return_statement(st, p)
      [] callable = "p_print_statement" -> p_print_statement(st, p)
      [] callable = "p_read_statement" -> p_read_statement(st, p)

-----------------------------------------------------------------------------
(* llvmlite: module, functions, basic blocks, IRBuilder.  The generator    *)
(* state is threaded as a record S; S.err names the exception raised so    *)
(* far ("none" when none): once set, every later step is skipped.          *)

\* an instruction: a holds what its text shows besides the names of values
\* (the type of its first operand; for a comparison the operator, that type
\* and the second operand, a literal or the type of a value), t the blocks or
\* the slot it refers to
Ins(op, a) == [op |-> op, a |-> a, t |-> <<>>]
Br(target) == [op |-> "br", a |-> <<>>, t |-> <<target>>]
\* cbranch on a value of type lty, ret of a value of type lty
CBranch(lty, truebr, falsebr) == [op |-> "cbranch", a |-> <<lty>>, t |-> <<truebr, falsebr>>]
RetOf(lty) == [op |-> "ret", a |-> <<lty>>, t |-> <<>>]
CBr(truebr, falsebr) == CBranch("i1", truebr, falsebr)
Ret == RetOf("i32")
TerminatorOps == {"br", "cbranch", "ret"}

Raise(S, e) == IF S.err = "none" THEN [S EXCEPT !.err = e] ELSE S

\* the values of self.function and self.builder when they are not None
FunctionRef(i) == [k |-> "Function", i |-> i]
IRBuilder(f, b) == [k |-> "IRBuilder", fn |-> f, blk |-> b]

CurBlock(S) == S.module.funcs[S.builder.fn].blocks[S.builder.blk]

\* IRBuilder._insert at the anchor, which this program keeps at the block's end
Insert(S, ins) ==
    IF S.err # "none" THEN S
    ELSE IF S.builder.k = "None" THEN Raise(S, "AttributeError")
    ELSE [S EXCEPT !.module.funcs[S.builder.fn].blocks[S.builder.blk].instrs = Append(@, ins)]

\* a cast of the IRBuilder (_castop): a value that has the type asked for is
\* returned as it is, any other goes through the instruction
CastOp(S, op, lty, typ) ==
    IF S.err # "none" THEN S
    ELSE IF S.builder.k = "None" THEN Raise(S, "AttributeError")
    ELSE IF lty = typ THEN S
    ELSE Insert(S, Ins(op, <<lty>>))

\* IRBuilder._set_terminator: assert not self.block.is_terminated
SetTerminatorChecked(S, ins) ==
    IF S.err # "none" THEN S
    ELSE IF S.builder.k = "None" THEN Raise(S, "AttributeError")
    ELSE IF CurBlock(S).terminated THEN Raise(S, "AssertionError")
    ELSE [S EXCEPT !.module.funcs[S.builder.fn].blocks[S.builder.blk] =
                        [@ EXCEPT !.instrs = Append(@, ins), !.terminated = TRUE]]

SetTerminator(S, ins) == SetTerminatorChecked(S, ins)

\* Block.is_terminated of the builder's block
IsTerminated(S) == CurBlock(S).terminated

\* index the next block appended to the current function will get
NextBlock(S) ==
    IF S.function.k = "None" THEN 0 ELSE Len(S.module.funcs[S.function.i].blocks) + 1

\* Function.append_basic_block
AppendBasicBlock(S, name) ==
    IF S.err # "none" THEN S
    ELSE IF S.function.k = "None" THEN Raise(S, "AttributeError")
    ELSE [S EXCEPT !.module.funcs[S.function.i].blocks =
                        Append(@, [name |-> name, instrs |-> <<>>, terminated |-> FALSE])]

\* IRBuilder.position_at_end
PositionAtEnd(S, blk) ==
    IF S.err # "none" THEN S
    ELSE IF S.builder.k = "None" THEN Raise(S, "AttributeError")
    ELSE [S EXCEPT !.builder.blk = blk]

\* hash(expr) & 0xffffffff: the strings of a class of hashseed have one value,
\* every other string a value of its own
Hash(str) ==
    IF \E class \in hashseed : str \in class
    THEN CHOOSE class \in hashseed : str \in class
    ELSE {str}

\* the names of ".str.<hash>" and ".str.fmt.<hash>" are those of the hashes
NameOf(ns, name) == IF ns \in {"str", "fmt"} THEN Hash(name) ELSE name

GlobalNames(S, ns) == { S.module.globals[i].name : i \in { j \in DOMAIN S.module.globals : S.module.globals[j].ns = ns } }

\* ir.GlobalVariable(module, type, name): global names are never deduplicated.
\* ns tells the shapes of name apart: ".str.<hash>", ".str.fmt.<hash>", ".str.scanf";
\* name is the string hashed (the contents of the global), or the name itself
GlobalVariable(S, ns, name) ==
    IF S.err # "none" THEN S
    ELSE IF \E n \in GlobalNames(S, ns) : NameOf(ns, n) = NameOf(ns, name)
    THEN Raise(S, "DuplicatedNameError")
    ELSE [S EXCEPT !.module.globals = Append(@, [ns |-> ns, name |-> name])]

\* ir.Function(module, type, name)
IrFunction(S, name, params) ==
    IF S.err # "none" THEN S
    ELSE IF name \in GlobalNames(S, "fn") THEN Raise(S, "DuplicatedNameError")
    ELSE [S EXCEPT !.module.globals = Append(@, [ns |-> "fn", name |-> name]),
                   !.module.funcs = Append(@, [name |-> name, params |-> params,
                                               blocks |-> <<>>, slots |-> 0])]

FuncIndex(S, name) == CHOOSE i \in DOMAIN S.module.funcs : S.module.funcs[i].name = name

\* _get_llvm_type: the LLVM type of a type name, and the state after the
\* call, which raises ValueError for any other name (lines 52-53)
TypeNames == {"int", "float", "bool", "string"}
_get_llvm_type(type_name) ==
    CASE type_name = "int" -> "i32"
      [] type_name = "float" -> "float"
      [] type_name = "bool" -> "i1"
      [] type_name = "string" -> "i8*"
Typed(S, type_names) ==
    IF S.err = "none" /\ \E i \in DOMAIN type_names : type_names[i] \notin TypeNames
    THEN Raise(S, "ValueError") ELSE S

\* the binary instructions of the builder (None when no function is being
\* built) refuse operands of different types
BinaryInstr(S, op, lty, rty) ==
    IF S.err # "none" THEN S
    ELSE IF S.builder.k = "None" THEN Raise(S, "AttributeError")
    ELSE IF lty # rty THEN Raise(S, "ValueError")
    ELSE Insert(S, Ins(op, <<lty>>))

\* IRBuilder.store refuses a value that is not of the slot's type
Store(S, vty, ptr) ==
    IF S.err # "none" THEN S
    ELSE IF S.builder.k = "None" THEN Raise(S, "AttributeError")
    ELSE IF ptr.lty # vty THEN Raise(S, "TypeError")
    ELSE Insert(S, [op |-> "store", a |-> <<ptr.name, vty>>, t |-> <<ptr.id>>])

\* IRBuilder.alloca: the slot it will create, and the state after creating it
NewSlot(S, lty, name) ==
    [fn |-> S.builder.fn, id |-> S.module.funcs[S.builder.fn].slots + 1,
     name |-> name, lty |-> lty]

Alloca(S, lty, name) ==
    IF S.err # "none" THEN S
    ELSE IF S.builder.k = "None" THEN Raise(S, "AttributeError")
    ELSE LET ptr == NewSlot(S, lty, name)
             S1 == Insert(S, [op |-> "alloca", a |-> <<name, lty>>, t |-> <<ptr.id>>])
         IN  [S1 EXCEPT !.module.funcs[S.builder.fn].slots = ptr.id]

Warn(S, what) ==
    IF S.err # "none" THEN S
    ELSE [S EXCEPT !.diags = Append(@, [kind |-> "Warning", what |-> what])]

-----------------------------------------------------------------------------
(* LLVMIRGenerator: expressions.  A result is [S, lty, sty, c]: the state  *)
(* after the code was emitted, the LLVM type of the value, its source type *)
(* and whether the value is an ir.Constant (an instruction when not).      *)

Val(S, lty, sty) == [S |-> S, lty |-> lty, sty |-> sty, c |-> FALSE]
Constant(S, lty, sty) == [S |-> S, lty |-> lty, sty |-> sty, c |-> TRUE]

\* get_reference of a second operand, which the text shows without a type:
\* a constant is a literal, a value is a name, defined with the value's type
Reference(v) ==
    IF v.c THEN (IF v.lty = "float" THEN "floating" ELSE "integer") ELSE v.lty
\* the value a cast returns: the value itself when it has the type asked for
CastValue(v, typ) == [lty |-> typ, sty |-> v.sty, c |-> v.lty = typ /\ v.c]

\* the conversions of _convert_type, any other pair passed over in silence
ConvertSilently(S, lty, from_type, to_type) ==
    IF from_type = "int" /\ to_type = "float"
        THEN Val(CastOp(S, "sitofp", lty, "float"), "float", to_type)
    ELSE IF from_type = "float" /\ to_type = "int"
        THEN Val(CastOp(S, "fptosi", lty, "i32"), "i32", to_type)
    ELSE IF from_type = "bool" /\ to_type = "int"
        THEN Val(CastOp(S, "zext", lty, "i32"), "i32", to_type)
    ELSE IF from_type = "int" /\ to_type = "bool"
        THEN Val(Insert(S, Ins("icmp", <<"!=", lty, "integer">>)), "i1", to_type)
    ELSE Val(S, lty, to_type)

_convert_type(S, lty, from_type, to_type) ==
    IF from_type = to_type THEN Val(S, lty, to_type)
    ELSE IF from_type = "int" /\ to_type = "float"
        THEN Val(CastOp(S, "sitofp", lty, "float"), "float", to_type)
    ELSE IF from_type = "float" /\ to_type = "int"
        THEN Val(CastOp(S, "fptosi", lty, "i32"), "i32", to_type)
    ELSE IF from_type = "bool" /\ to_type = "int"
        THEN Val(CastOp(S, "zext", lty, "i32"), "i32", to_type)
    ELSE IF from_type = "int" /\ to_type = "bool"
        THEN Val(Insert(S, Ins("icmp", <<"!=", lty, "integer">>)), "i1", to_type)
    ELSE Val(Warn(S, "Cannot convert"), lty, to_type)

\* the instruction an arithmetic operator selects
ArithOp(op, left_type) ==
    CASE op = "+" -> IF left_type = "float" THEN "fadd" ELSE "add"
      [] op = "-" -> IF left_type = "float" THEN "fsub" ELSE "sub"
      [] op = "*" -> IF left_type = "float" THEN "fmul" ELSE "mul"
      [] op = "/" -> IF left_type = "float" THEN "fdiv" ELSE "sdiv"
      [] op = "%" -> IF left_type = "float" THEN "frem" ELSE "srem"

\* the operands taken as they are, no int operand converted
PromoteNothing(O) ==
    [S |-> O.R.S, l |-> [lty |-> O.L.lty, sty |-> O.L.sty, c |-> O.L.c],
     r |-> [lty |-> O.R.lty, sty |-> O.R.sty, c |-> O.R.c]]

\* int and float operands: the int one is converted by sitofp (lines 264-271, 357-363)
Promote(O) ==
    IF O.L.sty = "float" /\ O.R.sty = "int"
    THEN [S |-> CastOp(O.R.S, "sitofp", O.R.lty, "float"),
          l |-> [lty |-> O.L.lty, sty |-> "float", c |-> O.L.c],
          r |-> [CastValue(O.R, "float") EXCEPT !.sty = "float"]]
    ELSE IF O.L.sty = "int" /\ O.R.sty = "float"
    THEN [S |-> CastOp(O.R.S, "sitofp", O.L.lty, "float"),
          l |-> [CastValue(O.L, "float") EXCEPT !.sty = "float"],
          r |-> [lty |-> O.R.lty, sty |-> "float", c |-> O.R.c]]
    ELSE [S |-> O.R.S, l |-> [lty |-> O.L.lty, sty |-> O.L.sty, c |-> O.L.c],
          r |-> [lty |-> O.R.lty, sty |-> O.R.sty, c |-> O.R.c]]

\* operands of && and || that are not bool are compared with zero
ToBool(S, v) ==
    IF v.sty # "bool"
    THEN [S |-> Insert(S, Ins("icmp", <<"!=", v.lty, "integer">>)), lty |-> "i1"]
    ELSE [S |-> S, lty |-> v.lty]

RECURSIVE _generate_expression(_, _)
RECURSIVE GenerateArgs(_, _)

\* the two operands of a binary node, the left one lowered first
RightOperand(expr, L) == [L |-> L, R |-> _generate_expression(expr.r, L.S)]
LowerOperands(expr, S) == RightOperand(expr, _generate_expression(expr.l, S))

\* _generate_binary_op on promoted operands (lines 273-319)
BinaryOpPromoted(op, P) ==
    IF op \in {"+", "-", "*", "/", "%"}
    THEN Val(BinaryInstr(P.S, ArithOp(op, P.l.sty), P.l.lty, P.r.lty), P.l.lty, P.l.sty)
    ELSE IF op \in {"&&", "||"}
    THEN LET A == ToBool(P.S, P.l)
             B == ToBool(A.S, P.r)
         IN  Val(BinaryInstr(B.S, IF op = "&&" THEN "and" ELSE "or", A.lty, B.lty),
                 A.lty, "bool")
    ELSE [Val(Warn(P.S, "Unsupported binary operator"), P.l.lty, P.l.sty) EXCEPT !.c = P.l.c]

\* _generate_binary_op on lowered operands (lines 253-271)
BinaryOpLowered(op, O) ==
    IF op = "+" /\ (O.L.sty = "string" \/ O.R.sty = "string")
    THEN [Val(Warn(O.R.S, "String concatenation not fully implemented"),
              IF O.L.sty = "string" THEN O.L.lty ELSE O.R.lty, "string")
            EXCEPT !.c = IF O.L.sty = "string" THEN O.L.c ELSE O.R.c]
    ELSE BinaryOpPromoted(op, Promote(O))

_generate_binary_op(expr, S) == BinaryOpLowered(expr.op, LowerOperands(expr, S))

\* _generate_unary_op on the lowered operand (lines 328-346)
UnaryOpLowered(op, V) ==
    IF op = "!"
    THEN IF V.sty # "bool"
         THEN IF V.sty = "float"
              THEN Val(Insert(V.S, Ins("fcmp", <<"==", V.lty, "floating">>)), "i1", "bool")
              ELSE Val(Insert(V.S, Ins("icmp", <<"==", V.lty, "integer">>)), "i1", "bool")
         ELSE Val(Insert(V.S, Ins("not", <<V.lty>>)), V.lty, "bool")
    ELSE IF op = "-"
    THEN Val(Insert(V.S, Ins(IF V.sty = "float" THEN "fneg" ELSE "neg", <<V.lty>>)),
             V.lty, V.sty)
    ELSE V

_generate_unary_op(expr, S) == UnaryOpLowered(expr.op, _generate_expression(expr.e, S))

\* _generate_comparison on promoted operands (lines 366-399): an operator that
\* is none of the six gets the warning and the constant false, no instruction
ComparisonOperators == {"<", ">", "<=", ">=", "==", "!="}
ComparisonPromoted(op, P) ==
    IF op \notin ComparisonOperators
    THEN Constant(Warn(P.S, "Unsupported comparison operator"), "i1", "bool")
    ELSE IF P.l.sty = "float"
    THEN Val(Insert(P.S, Ins("fcmp", <<op, P.l.lty, Reference(P.r)>>)), "i1", "bool")
    ELSE Val(Insert(P.S, Ins("icmp", <<op, P.l.lty, Reference(P.r)>>)), "i1", "bool")

_generate_comparison(expr, S) == ComparisonPromoted(expr.op, Promote(LowerOperands(expr, S)))

\* one more argument lowered; the result carries the LLVM types so far
NextArg(A, V) == [S |-> V.S, ltys |-> Append(A.ltys, V.lty)]

\* the arguments, left to right (lines 468-472)
GenerateArgs(args, S) ==
    IF args = <<>> THEN [S |-> S, ltys |-> <<>>]
    ELSE LET A == GenerateArgs(SubSeq(args, 1, Len(args) - 1), S)
         IN  NextArg(A, _generate_expression(args[Len(args)], A.S))

\* IRBuilder.call: CallInstr fixes and validates the declared parameters and
\* looks at no argument beyond them; n is the number of arguments of the call
Call(S, f, ltys) ==
    IF S.err # "none" THEN S
    ELSE IF S.builder.k = "None" THEN Raise(S, "AttributeError")
    ELSE LET params == S.module.funcs[f].params
             \* the parameters that have no argument, or one of another type
             Unfit == { i \in DOMAIN params : i > Len(ltys) \/ ltys[i] # params[i] }
             first == CHOOSE i \in Unfit : \A j \in Unfit : i <= j
         IN  IF Unfit = {}
             THEN Insert(S, [op |-> "call", a |-> <<S.module.funcs[f].name>>, t |-> <<f>>,
                             n |-> Len(ltys)])
             ELSE IF first > Len(ltys) THEN Raise(S, "IndexError")
             ELSE Raise(S, "TypeError")

PrintfIndex == 1
ScanfIndex == 2

\* a call of a name that nothing declares left out, the lowering going on
CallLoweredLenient(func_name, A) ==
    IF A.S.err # "none" THEN Val(A.S, "i32", "int")
    ELSE IF func_name \in DOMAIN A.S.functions
    THEN Val(Call(A.S, A.S.functions[func_name].func, A.ltys), "i32",
             A.S.functions[func_name].return_type)
    ELSE IF func_name = "printf" THEN Val(Call(A.S, PrintfIndex, A.ltys), "i32", "int")
    ELSE IF func_name = "scanf" THEN Val(Call(A.S, ScanfIndex, A.ltys), "i32", "int")
    ELSE IF func_name \notin GlobalNames(A.S, "fn")
    THEN Val(A.S, "i32", "int")
    ELSE Val(Call(A.S, FuncIndex(A.S, func_name), A.ltys), "i32", "int")

\* only the functions of the function table, printf and scanf are callable
CallLoweredFromTable(func_name, A) ==
    IF A.S.err # "none" THEN Val(A.S, "i32", "int")
    ELSE IF func_name \in DOMAIN A.S.functions
    THEN Val(Call(A.S, A.S.functions[func_name].func, A.ltys), "i32",
             A.S.functions[func_name].return_type)
    ELSE IF func_name = "printf" THEN Val(Call(A.S, PrintfIndex, A.ltys), "i32", "int")
    ELSE IF func_name = "scanf" THEN Val(Call(A.S, ScanfIndex, A.ltys), "i32", "int")
    ELSE Val(Raise(A.S, "KeyError"), "i32", "int")

\* _generate_function_call on the lowered arguments (lines 474-496)
CallLowered(func_name, A) ==
    IF A.S.err # "none" THEN Val(A.S, "i32", "int")
    ELSE IF func_name \in DOMAIN A.S.functions
    THEN Val(Call(A.S, A.S.functions[func_name].func, A.ltys), "i32",
             A.S.functions[func_name].return_type)
    ELSE IF func_name = "printf" THEN Val(Call(A.S, PrintfIndex, A.ltys), "i32", "int")
    ELSE IF func_name = "scanf" THEN Val(Call(A.S, ScanfIndex, A.ltys), "i32", "int")
    ELSE IF func_name \notin GlobalNames(A.S, "fn")
    THEN Val(Raise(A.S, "KeyError"), "i32", "int")
    ELSE Val(Call(A.S, FuncIndex(A.S, func_name), A.ltys), "i32", "int")

_generate_function_call(stmt, S) == CallLowered(stmt.name, GenerateArgs(stmt.args, S))

_generate_expression(expr, S) ==
    IF S.err # "none" THEN Val(S, "i32", "int")
    ELSE CASE expr.k = "int" -> Constant(S, "i32", "int")
           [] expr.k = "float" -> Constant(S, "float", "float")
           [] expr.k = "str" ->
                IF expr.s = "true" \/ expr.s = "false" THEN Constant(S, "i1", "bool")
                ELSE IF expr.s \in DOMAIN S.variables
                THEN LET var_info == S.variables[expr.s]
                     IN  Val(Insert(S, [op |-> "load", a |-> <<var_info.ptr.name>>,
                                        t |-> <<var_info.ptr.id>>]),
                             var_info.ptr.lty, var_info.type)
                ELSE Val(Insert(GlobalVariable(S, "str", expr.s), Ins("bitcast", <<"str", expr.s>>)),
                         "i8*", "string")
           [] expr.k = "binop" -> _generate_binary_op(expr, S)
           [] expr.k = "unop" -> _generate_unary_op(expr, S)
           [] expr.k = "function_call" -> _generate_function_call(expr, S)
           [] expr.k = "comparison" -> _generate_comparison(expr, S)
           [] OTHER -> Constant(S, "i32", "int")

-----------------------------------------------------------------------------
(* LLVMIRGenerator: the statements lowered without a nested statement      *)

SetVariable(S, name, ptr, ty) ==
    IF S.err # "none" THEN S
    ELSE [S EXCEPT !.variables = Put(@, name, [ptr |-> ptr, type |-> ty])]

\* what _convert_type returned is the value it was given when it emitted no
\* instruction
ConvertedFrom(V, C) == [C EXCEPT !.c = C.S.module = V.S.module /\ V.c]

\* a value of another type than its destination goes through _convert_type
Converted(V, to_type) ==
    IF to_type # V.sty THEN ConvertedFrom(V, _convert_type(V.S, V.lty, V.sty, to_type)) ELSE V

_generate_declaration(stmt, S) ==
    IF stmt.ty \notin TypeNames THEN Typed(S, << stmt.ty >>)
    ELSE IF S.builder.k = "None" THEN Raise(S, "AttributeError")
    ELSE SetVariable(Alloca(S, _get_llvm_type(stmt.ty), stmt.name), stmt.name,
                     NewSlot(S, _get_llvm_type(stmt.ty), stmt.name), stmt.ty)

\* _generate_declaration_init once the slot exists and the value is lowered
StoreInitialValue(stmt, ptr, C) ==
    SetVariable(Store(C.S, C.lty, ptr), stmt.name, ptr, stmt.ty)

_generate_declaration_init(stmt, S) ==
    IF stmt.ty \notin TypeNames THEN Typed(S, << stmt.ty >>)
    ELSE IF S.builder.k = "None" THEN Raise(S, "AttributeError")
    ELSE StoreInitialValue(stmt, NewSlot(S, _get_llvm_type(stmt.ty), stmt.name),
            Converted(_generate_expression(stmt.e,
                          Alloca(S, _get_llvm_type(stmt.ty), stmt.name)), stmt.ty))

\* _generate_assignment on the lowered value (lines 173-184)
AssignLowered(name, V) ==
    IF V.S.err # "none" THEN V.S
    ELSE IF name \in DOMAIN V.S.variables
    THEN LET var_info == V.S.variables[name]
             C == Converted(V, var_info.type)
         IN  Store(C.S, C.lty, var_info.ptr)
    ELSE Raise(V.S, "ValueError")

_generate_assignment(stmt, S) == AssignLowered(stmt.name, _generate_expression(stmt.e, S))

\* _generate_return on the lowered value (lines 670-678)
ReturnLowered(V) ==
    SetTerminator(IF V.sty = "float" THEN CastOp(V.S, "fptosi", V.lty, "i32")
                  ELSE IF V.sty = "bool" THEN CastOp(V.S, "zext", V.lty, "i32")
                  ELSE V.S,
                  RetOf(IF V.sty \in {"float", "bool"} THEN "i32" ELSE V.lty))

_generate_return(stmt, S) == ReturnLowered(_generate_expression(stmt.e, S))

FormatOf(expr_type) ==
    CASE expr_type = "float" -> "%f"
      [] expr_type = "string" -> "%s"
      [] OTHER -> "%d"

\* the global holding a format string: made on first use, then taken from the cache
FormatGlobal(S, fmt_str) ==
    IF S.err # "none" \/ fmt_str \in DOMAIN S.fmt_globals THEN S
    ELSE LET G1 == GlobalVariable(S, "fmt", fmt_str)
         IN  IF G1.err # "none" THEN G1
             ELSE [G1 EXCEPT !.fmt_globals = Put(@, fmt_str, [ns |-> "fmt", name |-> fmt_str])]

\* a bool that is not 32 bits wide is widened before it is printed
Widened(V) ==
    IF V.sty = "bool" /\ V.lty # "i32"
    THEN Val(CastOp(V.S, "zext", V.lty, "i32"), "i32", "bool") ELSE V

\* _generate_print on the value to print (lines 696-721)
PrintLowered(Z) ==
    Call(Insert(FormatGlobal(Z.S, FormatOf(Z.sty)), Ins("bitcast", <<"fmt", FormatOf(Z.sty)>>)),
         PrintfIndex, <<"i8*", Z.lty>>)

_generate_print(stmt, S) == PrintLowered(Widened(_generate_expression(stmt.e, S)))

_generate_read(stmt, S) ==
    LET S1 == Alloca(S, "i32", "read_temp")
        S2 == GlobalVariable(S1, "scanf", ".str.scanf")
        S3 == Insert(S2, Ins("bitcast", <<"scanf", ".str.scanf">>))
        S4 == Call(S3, ScanfIndex, <<"i8*", "i32*">>)
    IN  Insert(S4, Ins("load", <<"read_temp">>))

\* _generate_statement for a statement that holds no statement: the init and
\* the increment of a for statement, and every plain statement of a body
GenerateSimple(stmt, S) ==
    CASE stmt.k = "declaration" -> _generate_declaration(stmt, S)
      [] stmt.k = "declaration_init" -> _generate_declaration_init(stmt, S)
      [] stmt.k = "assignment" -> _generate_assignment(stmt, S)
      [] stmt.k = "function_call" -> _generate_function_call(stmt, S).S
      [] stmt.k = "return" -> _generate_return(stmt, S)
      [] stmt.k = "print" -> _generate_print(stmt, S)
      [] stmt.k = "read" -> _generate_read(stmt, S)
      [] OTHER -> S

\* a condition that is not bool is compared with zero
CoerceCondition(V) ==
    IF V.sty # "bool"
    THEN IF V.sty = "float" THEN Insert(V.S, Ins("fcmp", <<"!=", V.lty, "floating">>))
         ELSE Insert(V.S, Ins("icmp", <<"!=", V.lty, "integer">>))
    ELSE V.S
\* the type of cond_val, which cbranch is given
ConditionType(V) == IF V.sty # "bool" THEN "i1" ELSE V.lty

-----------------------------------------------------------------------------
(* Source programs.  A program is the sequence of its top-level items: the *)
(* phrase structure of a statement, with the tokens at its leaves (kinds   *)
(* as in Lexer.tokens), or a place where the token stream leaves the       *)
(* grammar: BAD is a token no statement can start with, standing between   *)
(* two statements; TRUNC is a statement cut off by the end of the input.   *)

MaxNodes == 3          \* statements (nested ones included) of a program

I1 == [k |-> "INTEGER", n |-> 1]
F25 == [k |-> "FLOAT", n |-> 25]      \* 2.5: the float written, in tenths
StrA == [k |-> "STRING", s |-> "a"]
StrX == [k |-> "STRING", s |-> "x"]
\* strings whose hashes agree in the low 32 bits when PYTHONHASHSEED is 0:
\* "bvco" with "jebl", "cxs" with "kbyv"
StrBvco == [k |-> "STRING", s |-> "bvco"]
StrJebl == [k |-> "STRING", s |-> "jebl"]
StrCxs == [k |-> "STRING", s |-> "cxs"]
StrKbyv == [k |-> "STRING", s |-> "kbyv"]
TrueTok == [k |-> "TRUE"]
Id(name) == [k |-> "IDENTIFIER", s |-> name]
Paren(e) == [k |-> "paren", e |-> e]
Bin(kind, op, l, r) == [k |-> kind, op |-> op, l |-> l, r |-> r]

DeclInit(ty, name, e) == [k |-> "decl_init", ty |-> ty, name |-> name, e |-> e]
Decl(ty, name) == [k |-> "decl", ty |-> ty, name |-> name]
Assign(name, e) == [k |-> "assign", name |-> name, e |-> e]
PrintS(e) == [k |-> "print", e |-> e]
ReturnS(e) == [k |-> "return", e |-> e]

SimpleStmts ==
    { DeclInit("int", "x", I1), Decl("float", "x"), Assign("x", I1),
      PrintS(Id("x")), ReturnS(I1) }

CondInt == I1
CondCmp == Bin("cmp", "<", I1, I1)
ForInit == DeclInit("int", "i", I1)
IncrAssign == [k |-> "incr_assign", name |-> "i", e |-> Bin("arith", "+", Id("i"), I1)]
IncrExpr == [k |-> "incr_expr", e |-> Bin("arith", "+", Id("i"), I1)]

\* the compound statements around one body
Wrap(body) ==
    { [k |-> "if", c |-> CondInt, body |-> body],
      [k |-> "while", c |-> CondCmp, body |-> body],
      [k |-> "for", init |-> ForInit, c |-> CondCmp, incr |-> IncrAssign, body |-> body],
      [k |-> "for", init |-> ForInit, c |-> CondCmp, incr |-> IncrExpr, body |-> body],
      [k |-> "fdecl", name |-> "f", params |-> <<>>, body |-> body] }

RECURSIVE StmtsOfSize(_)
RECURSIVE ListsOfSize(_)

\* the statement lists made of exactly n statements in all
ListsOfSize(n) ==
    IF n = 0 THEN { <<>> }
    ELSE UNION { { <<s>> \o rest : s \in StmtsOfSize(m), rest \in ListsOfSize(n - m) }
                 : m \in 1..n }

StmtsOfSize(n) ==
    (IF n = 1 THEN SimpleStmts ELSE {})
    \cup UNION { Wrap(b) : b \in ListsOfSize(n - 1) }
    \cup UNION { { [k |-> "if_else", c |-> CondInt, body |-> b1, ebody |-> b2]
                   : b1 \in ListsOfSize(m), b2 \in ListsOfSize(n - 1 - m) }
                 : m \in 0..(n - 1) }

ControlFlowPrograms == UNION { ListsOfSize(n) : n \in 1..MaxNodes }

\* operands of every static type, plain and nested
Leaves == { I1, F25, StrA, StrX, TrueTok, Id("x"), Id("u") }
NestedOperands ==
    { Paren(Bin("arith", "+", I1, I1)), Paren(Bin("term", "*", F25, F25)),
      Paren(Bin("arith", "+", StrA, StrA)), Paren(Bin("arith", "+", TrueTok, TrueTok)),
      Paren(Bin("arith", "+", I1, F25)), Paren(Bin("arith", "+", StrA, I1)),
      Paren(Bin("cmp", "<", I1, I1)), Paren([k |-> "not", e |-> TrueTok]) }
Operands == Leaves \cup NestedOperands

Operations ==
    { Bin("arith", op, l, r) : op \in {"+", "-", "%"}, l \in Operands, r \in Operands }
    \cup { Bin("term", op, l, r) : op \in {"*", "/"}, l \in Operands, r \in Operands }
    \cup { Bin("cmp", op, l, r) : op \in {"<", "=="}, l \in Operands, r \in Operands }
    \cup { Bin("logic", op, l, r) : op \in {"&&", "||"}, l \in Operands, r \in Operands }
    \cup { [k |-> "not", e |-> e] : e \in Operands }

ExpressionPrograms == { << DeclInit("int", "x", I1), PrintS(e) >> : e \in Operations }

\* the word of as many digits 1 as int() takes and one more, written short
LongWord == "1...1"
\* a token no statement starts with; the first n words of a statement
BadToken == [k |-> "BAD", s |-> ")"]
Trunc(s, n) == [k |-> "TRUNC", of |-> s, n |-> n]
\* int x =     print ( u + 1 +     if ( 1 ) { int y = 1 ; int z = 1 ;
CutOff ==
    { Trunc(DeclInit("int", "x", I1), 3),
      Trunc(PrintS(Bin("arith", "+", Bin("arith", "+", Id("u"), I1), I1)), 6),
      Trunc([k |-> "if", c |-> I1,
             body |-> << DeclInit("int", "y", I1), DeclInit("int", "z", I1) >>], 15) }
ErrorPrograms ==
    LET Some == { <<>>, << DeclInit("int", "x", I1) >>, << PrintS(I1) >>, << Assign("u", I1) >>,
                  << [k |-> "fdecl", name |-> "f", params |-> <<>>, body |-> <<>>] >> }
    IN  { a \o << BadToken >> \o b : a \in Some, b \in Some }
        \cup { << BadToken, BadToken >>, << BadToken, DeclInit("int", "x", I1), BadToken >>,
               << [k |-> "BAD", s |-> "1"] >>, << [k |-> "BAD", s |-> "2.05"] >>,
               << [k |-> "BAD", s |-> "@"] >>, << PrintS(I1), [k |-> "BAD", s |-> "@"], PrintS(I1) >>,
               << [k |-> "BAD", s |-> LongWord] >> }
        \cup { a \o << c >> : a \in Some, c \in CutOff }

ReadS == [k |-> "read"]
CallS(name, args) == [k |-> "fcall_stmt", name |-> name, args |-> args]
FDecl(name, params, body) == [k |-> "fdecl", name |-> name, params |-> params, body |-> body]
ParamA == [ty |-> "int", name |-> "a"]
ParamB == [ty |-> "int", name |-> "b"]

\* functions with a parameter, calls, a main of the program's own, read
CallPrograms ==
    LET G == FDecl("g", << ParamA >>, << ReturnS(Id("a")) >>)
    IN  { << G, CallS("g", args) >> : args \in { <<>>, << I1 >>, << F25 >>, << I1, I1 >> } }
        \cup { << G, PrintS([k |-> "call", name |-> "g", args |-> << I1 >>]) >>,
               << CallS("h", <<>>) >>, << CallS("printf", << StrA >>) >>,
               << CallS("printf", << StrA, StrX >>) >>, << CallS("main", <<>>) >>,
               << FDecl("main", <<>>, << ReturnS(I1) >>) >>,
               << FDecl("main", <<>>, <<>>), PrintS(I1) >>,
               << FDecl("main", <<>>, <<>>), FDecl("f", <<>>, << PrintS(I1) >>) >>,
               << ReadS >>, << ReadS, ReadS >>, << PrintS(StrA), PrintS(StrA) >>,
               << PrintS(StrBvco), PrintS(StrJebl) >>,
               << PrintS(StrCxs), PrintS(StrKbyv) >>,
               << DeclInit("string", "x", StrCxs), DeclInit("string", "y", StrKbyv) >>,
               << FDecl("g", << ParamA, ParamB >>, << ReturnS(Id("a")) >>), CallS("g", << F25 >>) >>,
               << FDecl("g", << ParamA, ParamB >>, << ReturnS(Id("a")) >>), CallS("g", << I1 >>) >> }

\* a bool variable declared with an initializer
BoolInitializers ==
    { TrueTok, I1, CondCmp, Bin("cmp", "==", F25, F25), [k |-> "not", e |-> TrueTok],
      Bin("logic", "&&", TrueTok, TrueTok), Bin("logic", "||", CondCmp, TrueTok),
      [k |-> "not", e |-> CondCmp] }
InitializerPrograms == { << DeclInit("bool", "b", e) >> : e \in BoolInitializers }

\* a variable of each type assigned a value of each type
AssignedValues == { I1, F25, StrA, TrueTok, CondCmp }
AssignmentPrograms ==
    { << Decl(ty, "x"), Assign("x", e) >> : ty \in {"int", "float", "bool", "string"},
                                            e \in AssignedValues }

\* a call of a declared function as an operand, bare and in parentheses
CallG == [k |-> "call", name |-> "g", args |-> << I1 >>]
CallOperations ==
    { Bin("arith", "+", CallG, I1), Bin("arith", "+", I1, CallG), Bin("term", "*", CallG, I1),
      Bin("cmp", "<", CallG, CallG), Bin("logic", "&&", CallG, TrueTok),
      [k |-> "not", e |-> CallG], Bin("arith", "+", Paren(CallG), I1),
      Bin("cmp", "<", I1, Paren(CallG)) }
CallOperandPrograms ==
    { << FDecl("g", << ParamA >>, << ReturnS(Id("a")) >>), PrintS(e) >> : e \in CallOperations }

\* a function whose body computes with its parameter
ParameterOperations ==
    { Bin("arith", "+", Id("a"), I1), Bin("arith", "-", I1, Id("a")),
      Bin("term", "*", Id("a"), I1), Bin("cmp", "<", Id("a"), I1) }
ParameterPrograms ==
    { << FDecl("g", << ParamA >>, << ReturnS(e) >>) >> : e \in ParameterOperations }

\* functions that call themselves, one declared earlier, one declared later
RecursionPrograms ==
    LET H == FDecl("h", <<>>, <<>>)
    IN  { << FDecl("g", << ParamA >>, << CallS("g", << I1 >>) >>) >>,
          << FDecl("g", << ParamA >>, << ReturnS(CallG) >>) >>,
          << FDecl("f", <<>>, << CallS("f", <<>>) >>), CallS("f", <<>>) >>,
          << FDecl("g", << ParamA >>, << CallS("h", <<>>) >>), H >>,
          << H, FDecl("g", << ParamA >>, << CallS("h", <<>>) >>) >>,
          << CallS("h", <<>>), H >> }

Programs ==
    ControlFlowPrograms \cup ExpressionPrograms \cup ErrorPrograms \cup CallPrograms
    \cup InitializerPrograms \cup AssignmentPrograms \cup CallOperandPrograms
    \cup ParameterPrograms \cup RecursionPrograms

-----------------------------------------------------------------------------
(* SymbolTable (symbol_table.py): a stack of scopes, each a dict from a    *)
(* name to [type, initialized].  st_ret tells the last call: the method,   *)
(* its arguments, the exception it raised ("none" when it returned) and    *)
(* the value it returned.                                                  *)

MaxScopes == 2         \* scopes on the stack
SymbolNames == {"a", "b"}
SymbolTypes == {"int", "float"}

Returned_(op, name, arg, value) ==
    [op |-> op, name |-> name, arg |-> arg, raised |-> "none", value |-> value]
Raised_(op, name, arg, exc) ==
    [op |-> op, name |-> name, arg |-> arg, raised |-> exc, value |-> "None"]

\* SymbolTable.__init__
SymbolTableNew ==
    /\ tables = << EmptyDict >>
    /\ st_ret = Returned_("__init__", "None", "None", "None")

\* a search from the outermost scope inwards
FindScopeOutermostFirst(tabs, name, i) ==
    IF \E j \in 1..i : name \in DOMAIN tabs[j]
    THEN CHOOSE j \in 1..i : name \in DOMAIN tabs[j] /\ \A m \in 1..(j - 1) : name \notin DOMAIN tabs[m]
    ELSE 0

RECURSIVE FindScope(_, _, _)
\* for scope in reversed(self.tables): if name in scope -- the index of the
\* first scope met from i downwards that binds name, 0 when there is none
FindScope(tabs, name, i) ==
    IF i = 0 THEN 0
    ELSE IF name \in DOMAIN tabs[i] THEN i
    ELSE FindScope(tabs, name, i - 1)

enter_scope ==
    /\ Len(tables) < MaxScopes
    /\ tables' = Append(tables, EmptyDict)
    /\ st_ret' = Returned_("enter_scope", "None", "None", "None")
    /\ UNCHANGED <<compilerVars, lexerVars, callerVars, mainVars>>

\* the last scope popped, whatever the depth
PoppedUnguarded(tabs) == SubSeq(tabs, 1, Len(tabs) - 1)

\* if len(self.tables) > 1: self.tables.pop()
Popped(tabs) == IF Len(tabs) > 1 THEN SubSeq(tabs, 1, Len(tabs) - 1) ELSE tabs

exit_scope ==
    /\ tables' = Popped(tables)
    /\ st_ret' = Returned_("exit_scope", "None", "None", "None")
    /\ UNCHANGED <<compilerVars, lexerVars, callerVars, mainVars>>

declare ==
    \E name \in SymbolNames, type \in SymbolTypes :
        /\ IF name \in DOMAIN tables[Len(tables)]
           THEN /\ st_ret' = Raised_("declare", name, type, "ValueError")
                /\ tables' = tables
           ELSE /\ tables' = [tables EXCEPT ![Len(tables)] =
                                 Put(@, name, [type |-> type, initialized |-> FALSE])]
                /\ st_ret' = Returned_("declare", name, type, "None")
        /\ UNCHANGED <<compilerVars, lexerVars, callerVars, mainVars>>

assign ==
    \E name \in SymbolNames, value_type \in SymbolTypes :
        /\ LET k == FindScope(tables, name, Len(tables))
           IN  IF k = 0
               THEN /\ st_ret' = Raised_("assign", name, value_type, "NameError")
                    /\ tables' = tables
               ELSE IF tables[k][name].type # value_type
               THEN /\ st_ret' = Raised_("assign", name, value_type, "TypeError")
                    /\ tables' = tables
               ELSE /\ tables' = [tables EXCEPT ![k][name].initialized = TRUE]
                    /\ st_ret' = Returned_("assign", name, value_type, "None")
        /\ UNCHANGED <<compilerVars, lexerVars, callerVars, mainVars>>

lookup ==
    \E name \in SymbolNames :
        /\ LET k == FindScope(tables, name, Len(tables))
           IN  IF k = 0
               THEN st_ret' = Raised_("lookup", name, "None", "NameError")
               ELSE IF ~tables[k][name].initialized
               THEN st_ret' = Raised_("lookup", name, "None", "ValueError")
               ELSE st_ret' = Returned_("lookup", name, "None", tables[k][name].type)
        /\ tables' = tables
        /\ UNCHANGED <<compilerVars, lexerVars, callerVars, mainVars>>

-----------------------------------------------------------------------------
(* Lexer (lexer.py) on ply.lex.  The input is a sequence of characters.    *)
(* A token is [type, value, lineno, lexpos]; positions count from 1.       *)

Digits == {"0", "1", "2", "3", "4", "5", "6", "7", "8", "9"}
Letters ==
    {"a", "b", "c", "d", "e", "f", "g", "h", "i", "j", "k", "l", "m", "n", "o", "p", "q", "r", "s", "t", "u", "v", "w", "x", "y", "z",
     "A", "B", "C", "D", "E", "F", "G", "H", "I", "J", "K", "L", "M", "N", "O", "P", "Q", "R", "S", "T", "U", "V", "W", "X", "Y", "Z"}
\* \d of a pattern that is a str: the decimal digits of Unicode.  Those
\* that are not of ASCII are stood for by ARABIC-INDIC DIGIT THREE, which
\* the model writes by its code point
DecimalDigits == Digits \cup {"U+0663"}
IdentifierStart == Letters \cup {"_"}
IdentifierChars == IdentifierStart \cup Digits
\* t_ignore
Ignored == {" ", "\t"}

\* the character at p, "" past the end
At(data, p) == IF p \in 1..Len(data) THEN data[p] ELSE ""

\* the position after the longest run of characters of class from p on
RunEnd(data, p, class) ==
    IF p > Len(data) THEN p
    ELSE CHOOSE q \in p..(Len(data) + 1) :
            At(data, q) \notin class /\ \A r \in p..(q - 1) : At(data, r) \in class

\* the position after the longest run of characters not in stop from p on
RunEndBefore(data, p, stop) ==
    IF p > Len(data) THEN p
    ELSE CHOOSE q \in p..(Len(data) + 1) :
            /\ q > Len(data) \/ data[q] \in stop
            /\ \A r \in p..(q - 1) : data[r] \notin stop

\* The rules: the position after the match of the rule at p, 0 without match.
\* t_FLOAT  \d+\.\d+
MatchFloat(data, p) ==
    LET q1 == RunEnd(data, p, DecimalDigits)
        q2 == RunEnd(data, q1 + 1, DecimalDigits)
    IN  IF q1 > p /\ At(data, q1) = "." /\ q2 > q1 + 1 THEN q2 ELSE 0

\* t_INTEGER  \d+
MatchInteger(data, p) ==
    LET q1 == RunEnd(data, p, DecimalDigits) IN IF q1 > p THEN q1 ELSE 0

\* t_STRING  "[^"]*"|'[^']*'
MatchString(data, p) ==
    IF At(data, p) \in {"\"", "'"}
    THEN LET q == RunEndBefore(data, p + 1, {At(data, p)})
         IN  IF At(data, q) = At(data, p) THEN q + 1 ELSE 0
    ELSE 0

\* t_IDENTIFIER  [a-zA-Z_][a-zA-Z0-9_]*
MatchIdentifier(data, p) ==
    IF At(data, p) \in IdentifierStart THEN RunEnd(data, p + 1, IdentifierChars) ELSE 0

\* t_newline  \n+
MatchNewline(data, p) ==
    LET q == RunEnd(data, p, {"\n"}) IN IF q > p THEN q ELSE 0

\* t_COMMENT  //.*
MatchComment(data, p) ==
    IF At(data, p) = "/" /\ At(data, p + 1) = "/"
    THEN RunEndBefore(data, p + 2, {"\n"})
    ELSE 0

\* t_MULTILINE_COMMENT  /\*(.|\n)*?\*/
MatchMultilineComment(data, p) ==
    LET Closes == { q \in (p + 2)..Len(data) : At(data, q) = "*" /\ At(data, q + 1) = "/" }
    IN  IF At(data, p) = "/" /\ At(data, p + 1) = "*" /\ Closes # {}
        THEN (CHOOSE q \in Closes : \A r \in Closes : q <= r) + 2
        ELSE 0

\* the rules given as strings, in the order ply tries them: after the rules
\* given as functions, by decreasing length of the regular expression and by
\* name among those of one length
StringRules ==
    << [type |-> "OR", text |-> <<"|", "|">>],
       [type |-> "AND", text |-> <<"&", "&">>],
       [type |-> "EQ", text |-> <<"=", "=">>],
       [type |-> "GREATER_EQUAL", text |-> <<">", "=">>],
       [type |-> "LBRACE", text |-> <<"{">>],
       [type |-> "LESS_EQUAL", text |-> <<"<", "=">>],
       [type |-> "LPAREN", text |-> <<"(">>],
       [type |-> "MULTIPLY", text |-> <<"*">>],
       [type |-> "NOT_EQUAL", text |-> <<"!", "=">>],
       [type |-> "PLUS", text |-> <<"+">>],
       [type |-> "RBRACE", text |-> <<"}">>],
       [type |-> "RPAREN", text |-> <<")">>],
       [type |-> "COMMA", text |-> <<",">>],
       [type |-> "DIVIDE", text |-> <<"/">>],
       [type |-> "EQUALS", text |-> <<"=">>],
       [type |-> "GREATER_THAN", text |-> <<">">>],
       [type |-> "LESS_THAN", text |-> <<"<">>],
       [type |-> "MINUS", text |-> <<"-">>],
       [type |-> "MOD", text |-> <<"%">>],
       [type |-> "NOT", text |-> <<"!">>],
       [type |-> "SEMICOLON", text |-> <<";">>] >>

StartsWith(data, p, text) == \A i \in DOMAIN text : At(data, p + i - 1) = text[i]
MatchingStringRules(data, p) ==
    { i \in DOMAIN StringRules : StartsWith(data, p, StringRules[i].text) }
Least(rules) == IF rules = {} THEN 0 ELSE CHOOSE i \in rules : \A j \in rules : i <= j
Greatest(rules) == IF rules = {} THEN 0 ELSE CHOOSE i \in rules : \A j \in rules : i >= j
\* the string rules tried the other way round: the last one that matches at p
StringRuleAtShortestFirst(data, p) == Greatest(MatchingStringRules(data, p))

\* the first of the string rules that matches at p, 0 when none does
StringRuleAt(data, p) == Least(MatchingStringRules(data, p))

\* the master regular expression: the first rule that matches at p
RuleAt(data, p) ==
    IF MatchFloat(data, p) # 0 THEN "t_FLOAT"
    ELSE IF MatchInteger(data, p) # 0 THEN "t_INTEGER"
    ELSE IF MatchString(data, p) # 0 THEN "t_STRING"
    ELSE IF MatchIdentifier(data, p) # 0 THEN "t_IDENTIFIER"
    ELSE IF MatchNewline(data, p) # 0 THEN "t_newline"
    ELSE IF MatchComment(data, p) # 0 THEN "t_COMMENT"
    ELSE IF MatchMultilineComment(data, p) # 0 THEN "t_MULTILINE_COMMENT"
    ELSE IF StringRuleAt(data, p) # 0 THEN "string"
    ELSE "t_error"

\* Lexer.reserved.get(value, 'IDENTIFIER')
Reserved(value) ==
    CASE value = <<"i", "f">> -> "IF"
      [] value = <<"e", "l", "s", "e">> -> "ELSE"
      [] value = <<"w", "h", "i", "l", "e">> -> "WHILE"
      [] value = <<"f", "o", "r">> -> "FOR"
      [] value = <<"i", "n", "t">> -> "INT_TYPE"
      [] value = <<"f", "l", "o", "a", "t">> -> "FLOAT_TYPE"
      [] value = <<"s", "t", "r", "i", "n", "g">> -> "STRING_TYPE"
      [] value = <<"b", "o", "o", "l">> -> "BOOL_TYPE"
      [] value = <<"t", "r", "u", "e">> -> "TRUE"
      [] value = <<"f", "a", "l", "s", "e">> -> "FALSE"
      [] value = <<"r", "e", "t", "u", "r", "n">> -> "RETURN"
      [] value = <<"d", "e", "f">> -> "FUNCTION"
      [] value = <<"p", "r", "i", "n", "t">> -> "PRINT"
      [] value = <<"r", "e", "a", "d">> -> "READ"
      [] OTHER -> "IDENTIFIER"

DigitValue(c) ==
    CASE c = "0" -> 0 [] c = "1" -> 1 [] c = "2" -> 2 [] c = "3" -> 3 [] c = "4" -> 4
      [] c = "5" -> 5 [] c = "6" -> 6 [] c = "7" -> 7 [] c = "8" -> 8 [] c = "9" -> 9
      [] c = "U+0663" -> 3

\* the digits of a number as str() writes them
Ascii(digits) ==
    [i \in DOMAIN digits |-> CHOOSE c \in Digits : DigitValue(c) = DigitValue(digits[i])]
\* without the zeros it begins with, and without those it ends with
Significant(digits) ==
    IF \A i \in DOMAIN digits : DigitValue(digits[i]) = 0 THEN <<>>
    ELSE SubSeq(Ascii(digits),
                CHOOSE i \in DOMAIN digits :
                    DigitValue(digits[i]) # 0 /\ \A j \in 1..(i - 1) : DigitValue(digits[j]) = 0,
                Len(digits))
StripZeros(digits) ==
    IF \A i \in DOMAIN digits : DigitValue(digits[i]) = 0 THEN <<>>
    ELSE SubSeq(Ascii(digits), 1,
                CHOOSE i \in DOMAIN digits :
                    DigitValue(digits[i]) # 0
                        /\ \A j \in (i + 1)..Len(digits) : DigitValue(digits[j]) = 0)

\* int(str) raises ValueError for a str of more digits than
\* sys.int_info.default_max_str_digits (CPython 3.11, the interpreter that
\* wrote src/__pycache__)
int_max_str_digits == 4300
IntRaises(digits) == Len(digits) > int_max_str_digits

\* the numbers of so many digits are numbers of the model too
NatDigits == 9
\* the number that the first k digits write
NatValue(digits) ==
    LET value[k \in 0..Len(digits)] ==
            IF k = 0 THEN 0 ELSE 10 * value[k - 1] + DigitValue(digits[k])
    IN  value[Len(digits)]
\* int(t.value) where it raises nothing: the number, which has no width in
\* Python; a number of more than NatDigits digits is held as its digits
IntValue(digits) ==
    LET int[d \in { Significant(digits) }] == IF Len(d) <= NatDigits THEN NatValue(d) ELSE d
    IN  int[Significant(digits)]

\* sys.float_info.dig: the decimal digits a double tells apart
DBL_DIG == 15
\* float(t.value): the integer part and the digits of the fraction that
\* count.  A double holds a number of up to DBL_DIG digits as it is written;
\* of one of more digits it holds the nearest double, which the model does
\* not compute: it holds the number with the mark that it was rounded
FloatParts(int, frac) ==
    IF Len(int) + Len(frac) <= DBL_DIG THEN [int |-> IntValue(int), frac |-> frac]
    ELSE [int |-> IntValue(int), frac |-> frac, nearest |-> TRUE]
FloatValue(text) ==
    LET Dot(t) == CHOOSE i \in DOMAIN t : t[i] = "."
        float[t \in { text }] ==
            FloatParts(Significant(SubSeq(t, 1, Dot(t) - 1)),
                       StripZeros(SubSeq(t, Dot(t) + 1, Len(t))))
    IN  float[text]

Token(type, value, line, pos) ==
    [type |-> type, value |-> value, lineno |-> line, lexpos |-> pos]

Count(text, c) == Cardinality({ i \in DOMAIN text : text[i] = c })

\* the lexer before Lexer.test is called
LexerNew ==
    /\ lexdata = <<>>
    /\ lexpos = 1
    /\ lineno = 1
    /\ toks = <<>>
    /\ lexdiags = <<>>
    /\ lexphase = "idle"

\* the inputs of Lexer.test: up to MaxPieces pieces, one after the other
MaxPieces == 3
LexPieces ==
    { <<"a">>, <<"1">>, <<"0">>, <<".">>, <<"\n">>, <<" ">>, <<"\"">>, <<"/">>, <<"*">>,
      <<"=">>, <<"!">>, <<"<">>, <<">">>, <<"&">>, <<"|">>, <<"@">>, <<"U+0663">>,
      <<"i", "f">>, <<"/", "/">>, <<"1", ".", "1">>,
      <<"\"", "\n", "\"">>, <<"/", "*", "\n", "*", "/">> }
RECURSIVE LexInputsOf(_)
LexInputsOf(n) ==
    IF n = 0 THEN { <<>> }
    ELSE LexInputsOf(n - 1) \cup { d \o piece : d \in LexInputsOf(n - 1), piece \in LexPieces }
\* an integer literal of one digit more than the numbers of the model have,
\* and literals of one digit more than int() takes
Ones(n) == [i \in 1..n |-> "1"]
LongInputs ==
    { Ones(NatDigits + 1), Ones(int_max_str_digits + 1),
      <<"a", "@">> \o Ones(int_max_str_digits + 1) \o <<" ", "a">> }
LexInputs == LexInputsOf(MaxPieces) \cup LongInputs

\* lexer.skip(1) in t_error
Skip(p, n) == p + n
t_error_skip(p) == Skip(p, 1)

Step_(rule, pos, line, out, diag) ==
    [rule |-> rule, pos |-> pos, line |-> line, out |-> out, diag |-> diag, err |-> "none"]
\* the rule raised: lexer.token() had moved lexpos past the match before it
\* called the rule
Raised(rule, pos, line, err) ==
    [rule |-> rule, pos |-> pos, line |-> line, out |-> <<>>, diag |-> <<>>, err |-> err]

\* what a rule does with its match, value: the token it returns if any, the
\* line counter and the position afterwards
NumberStep(rule, type, value, p, line) ==
    IF type = "INTEGER" /\ IntRaises(value) THEN Raised(rule, p + Len(value), line, "ValueError")
    ELSE Step_(rule, p + Len(value), line,
               << Token(type, IF type = "FLOAT" THEN FloatValue(value) ELSE IntValue(value), line, p) >>,
               <<>>)
t_STRING_Step(value, p, line) ==
    Step_("t_STRING", p + Len(value), line,
          << Token("STRING", SubSeq(value, 2, Len(value) - 1), line, p) >>, <<>>)
t_IDENTIFIER_Step(value, p, line) ==
    Step_("t_IDENTIFIER", p + Len(value), line, << Token(Reserved(value), value, line, p) >>, <<>>)
StringRuleStep(r, p, line) ==
    Step_("string", p + Len(r.text), line, << Token(r.type, r.text, line, p) >>, <<>>)
t_newline_Step(value, p, line) ==
    Step_("t_newline", p + Len(value), line + Len(value), <<>>, <<>>)
t_MULTILINE_COMMENT_Step(value, p, line) ==
    Step_("t_MULTILINE_COMMENT", p + Len(value), line + Count(value, "\n"), <<>>, <<>>)

RuleStep(rule, data, p, line) ==
    IF rule = "t_FLOAT"
    THEN NumberStep(rule, "FLOAT", SubSeq(data, p, MatchFloat(data, p) - 1), p, line)
    ELSE IF rule = "t_INTEGER"
    THEN NumberStep(rule, "INTEGER", SubSeq(data, p, MatchInteger(data, p) - 1), p, line)
    ELSE IF rule = "t_STRING"
    THEN t_STRING_Step(SubSeq(data, p, MatchString(data, p) - 1), p, line)
    ELSE IF rule = "t_IDENTIFIER"
    THEN t_IDENTIFIER_Step(SubSeq(data, p, MatchIdentifier(data, p) - 1), p, line)
    ELSE IF rule = "t_newline"
    THEN t_newline_Step(SubSeq(data, p, MatchNewline(data, p) - 1), p, line)
    ELSE IF rule = "t_COMMENT"
    THEN Step_(rule, MatchComment(data, p), line, <<>>, <<>>)
    ELSE IF rule = "t_MULTILINE_COMMENT"
    THEN t_MULTILINE_COMMENT_Step(SubSeq(data, p, MatchMultilineComment(data, p) - 1), p, line)
    ELSE IF rule = "string"
    THEN StringRuleStep(StringRules[StringRuleAt(data, p)], p, line)
    ELSE Step_(rule, t_error_skip(p), line, <<>>, << [char |-> data[p], lineno |-> line, lexpos |-> p] >>)

\* what lexer.token() finds at p: a character to ignore, else the first rule
\* that matches, else the error rule
Dispatch(data, p) == IF At(data, p) \in Ignored THEN "t_ignore" ELSE RuleAt(data, p)

\* one turn of the loop of lexer.token() at p
Dispatched(rule, data, p, line) ==
    IF rule = "t_ignore" THEN Step_("t_ignore", p + 1, line, <<>>, <<>>)
    ELSE RuleStep(rule, data, p, line)
LexStep(data, p, line) == Dispatched(Dispatch(data, p), data, p, line)

\* Lexer.test(data) up to lexer.input(data)
TestBegin ==
    /\ lexphase = "idle"
    /\ \E data \in LexInputs : lexdata' = data
    /\ lexpos' = 1
    /\ lineno' = 1
    /\ toks' = <<>>
    /\ lexphase' = "scanning"
    /\ UNCHANGED <<lexdiags, compilerVars, symtabVars, callerVars, mainVars>>

Scanning(rule) ==
    /\ lexphase = "scanning"
    /\ lexpos <= Len(lexdata)
    /\ Dispatch(lexdata, lexpos) = rule

\* the turn is done; an exception of the rule leaves token() and test
Scanned(s) ==
    /\ lexpos' = s.pos
    /\ lineno' = s.line
    /\ toks' = toks \o s.out
    /\ lexdiags' = lexdiags \o s.diag
    /\ lexphase' = IF s.err = "none" THEN lexphase ELSE "raised"
    /\ UNCHANGED <<lexdata, compilerVars, symtabVars, callerVars, mainVars>>

\* the turn of lexer.token() that the rule at lexpos takes
Turned == \E s \in { LexStep(lexdata, lexpos, lineno) } : Scanned(s)

LexIgnore == Scanning("t_ignore") /\ Turned
t_FLOAT == Scanning("t_FLOAT") /\ Turned
t_INTEGER == Scanning("t_INTEGER") /\ Turned
t_STRING == Scanning("t_STRING") /\ Turned
t_IDENTIFIER == Scanning("t_IDENTIFIER") /\ Turned
t_newline == Scanning("t_newline") /\ Turned
t_COMMENT == Scanning("t_COMMENT") /\ Turned
t_MULTILINE_COMMENT == Scanning("t_MULTILINE_COMMENT") /\ Turned
LexStringRule == Scanning("string") /\ Turned
t_error == Scanning("t_error") /\ Turned

\* lexer.token() returns None at the end of the input, leaving lexpos one
\* further, and test returns tokens
TestReturn ==
    /\ lexphase = "scanning"
    /\ lexpos > Len(lexdata)
    /\ lexpos' = lexpos + 1
    /\ lexphase' = "returned"
    /\ UNCHANGED <<lexdata, lineno, toks, lexdiags, compilerVars, symtabVars, callerVars, mainVars>>

RECURSIVE TokensFrom(_, _, _)
\* the tokens lexer.token() returns from p on
TokensFrom(data, p, line) ==
    IF p > Len(data) \/ LexStep(data, p, line).err # "none" THEN <<>>
    ELSE LexStep(data, p, line).out
            \o TokensFrom(data, LexStep(data, p, line).pos, LexStep(data, p, line).line)
\* Lexer.test(data) as a function
Tokens(data) == TokensFrom(data, 1, 1)

-----------------------------------------------------------------------------
(* The text of a program.  Python strings are kept whole in the model; the *)
(* lexer reads characters, so the words of the programs are spelled out.   *)

\* a sequence of characters for every word of more than one character
Spelling ==
    "int" :> <<"i", "n", "t">> @@ "float" :> <<"f", "l", "o", "a", "t">>
    @@ "string" :> <<"s", "t", "r", "i", "n", "g">> @@ "bool" :> <<"b", "o", "o", "l">>
    @@ "if" :> <<"i", "f">> @@ "else" :> <<"e", "l", "s", "e">>
    @@ "while" :> <<"w", "h", "i", "l", "e">> @@ "for" :> <<"f", "o", "r">>
    @@ "return" :> <<"r", "e", "t", "u", "r", "n">> @@ "def" :> <<"d", "e", "f">>
    @@ "print" :> <<"p", "r", "i", "n", "t">> @@ "read" :> <<"r", "e", "a", "d">>
    @@ "true" :> <<"t", "r", "u", "e">> @@ "false" :> <<"f", "a", "l", "s", "e">>
    @@ "main" :> <<"m", "a", "i", "n">> @@ "printf" :> <<"p", "r", "i", "n", "t", "f">>
    @@ "bvco" :> <<"b", "v", "c", "o">> @@ "jebl" :> <<"j", "e", "b", "l">>
    @@ "cxs" :> <<"c", "x", "s">> @@ "kbyv" :> <<"k", "b", "y", "v">>
    @@ "2.05" :> <<"2", ".", "0", "5">>
    @@ LongWord :> Ones(int_max_str_digits + 1)
    @@ "==" :> <<"=", "=">> @@ "!=" :> <<"!", "=">> @@ "<=" :> <<"<", "=">>
    @@ ">=" :> <<">", "=">> @@ "&&" :> <<"&", "&">> @@ "||" :> <<"|", "|">>
\* the characters of a string, and the string of a sequence of characters
Chars(s) == IF s \in DOMAIN Spelling THEN Spelling[s] ELSE << s >>
Str(chars) ==
    IF Len(chars) = 1 THEN chars[1]
    ELSE CHOOSE s \in DOMAIN Spelling : Spelling[s] = chars

RECURSIVE Numeral(_)
\* str(n) of a natural number
Numeral(n) ==
    (IF n < 10 THEN <<>> ELSE Numeral(n \div 10))
        \o << CHOOSE c \in Digits : DigitValue(c) = n % 10 >>

W(s) == << Chars(s) >>

RECURSIVE ExprWords(_)
RECURSIVE ListWords(_)
RECURSIVE StmtWords(_)
RECURSIVE BodyWords(_)
RECURSIVE ParamWords(_)

\* the words (tokens as written) of an expression
ExprWords(e) ==
    CASE e.k = "INTEGER" -> << Numeral(e.n) >>
      [] e.k = "FLOAT" -> << Numeral(e.n \div 10) \o <<".">> \o Numeral(e.n % 10) >>
      [] e.k = "STRING" -> << <<"\"">> \o Chars(e.s) \o <<"\"">> >>
      [] e.k = "TRUE" -> W("true")
      [] e.k = "FALSE" -> W("false")
      [] e.k = "IDENTIFIER" -> W(e.s)
      [] e.k = "paren" -> W("(") \o ExprWords(e.e) \o W(")")
      [] e.k \in {"term", "arith", "cmp", "logic"} -> ExprWords(e.l) \o W(e.op) \o ExprWords(e.r)
      [] e.k = "not" -> W("!") \o ExprWords(e.e)
      [] e.k = "call" -> W(e.name) \o W("(") \o ListWords(e.args) \o W(")")

\* expressions with commas between
ListWords(es) ==
    IF es = <<>> THEN <<>>
    ELSE IF Len(es) = 1 THEN ExprWords(es[1])
    ELSE ExprWords(es[1]) \o W(",") \o ListWords(Tail(es))

ParamWords(ps) ==
    IF ps = <<>> THEN <<>>
    ELSE IF Len(ps) = 1 THEN W(ps[1].ty) \o W(ps[1].name)
    ELSE W(ps[1].ty) \o W(ps[1].name) \o W(",") \o ParamWords(Tail(ps))

BodyWords(body) ==
    IF body = <<>> THEN <<>> ELSE StmtWords(body[1]) \o BodyWords(Tail(body))

\* the words of a statement; of a statement cut off, the first n of them
StmtWords(s) ==
    CASE s.k = "decl" -> W(s.ty) \o W(s.name) \o W(";")
      [] s.k = "decl_init" -> W(s.ty) \o W(s.name) \o W("=") \o ExprWords(s.e) \o W(";")
      [] s.k = "assign" -> W(s.name) \o W("=") \o ExprWords(s.e) \o W(";")
      [] s.k = "fcall_stmt" -> W(s.name) \o W("(") \o ListWords(s.args) \o W(")") \o W(";")
      [] s.k = "fdecl" ->
            W("def") \o W(s.name) \o W("(") \o ParamWords(s.params) \o W(")")
                \o W("{") \o BodyWords(s.body) \o W("}")
      [] s.k = "if" ->
            W("if") \o W("(") \o ExprWords(s.c) \o W(")") \o W("{") \o BodyWords(s.body) \o W("}")
      [] s.k = "if_else" ->
            W("if") \o W("(") \o ExprWords(s.c) \o W(")") \o W("{") \o BodyWords(s.body) \o W("}")
                \o W("else") \o W("{") \o BodyWords(s.ebody) \o W("}")
      [] s.k = "while" ->
            W("while") \o W("(") \o ExprWords(s.c) \o W(")")
                \o W("{") \o BodyWords(s.body) \o W("}")
      [] s.k = "for" ->
            W("for") \o W("(") \o StmtWords(s.init) \o ExprWords(s.c) \o W(";")
                \o (IF s.incr.k = "incr_assign" THEN W(s.incr.name) \o W("=") ELSE <<>>)
                \o ExprWords(s.incr.e) \o W(")") \o W("{") \o BodyWords(s.body) \o W("}")
      [] s.k = "return" -> W("return") \o ExprWords(s.e) \o W(";")
      [] s.k = "print" -> W("print") \o W("(") \o ExprWords(s.e) \o W(")") \o W(";")
      [] s.k = "read" -> W("read") \o W("(") \o W(")") \o W(";")
      [] s.k = "BAD" -> W(s.s)
      [] s.k = "TRUNC" -> SubSeq(StmtWords(s.of), 1, s.n)

RECURSIVE Line(_)
\* words with a blank between
Line(words) ==
    IF words = <<>> THEN <<>>
    ELSE IF Len(words) = 1 THEN words[1]
    ELSE words[1] \o <<" ">> \o Line(Tail(words))

RECURSIVE Render(_)
\* the source text: every top-level item on a line of its own, the input
\* ending with the last word of a statement cut off
Render(items) ==
    IF items = <<>> THEN <<>>
    ELSE Line(StmtWords(items[1])) \o (IF items[1].k = "TRUNC" THEN <<>> ELSE <<"\n">>)
            \o Render(Tail(items))

-----------------------------------------------------------------------------
(* Parser.parse: the LR driver (ply) on the tokens of the text.            *)

\* Parser() and LLVMIRGenerator() as constructed
CompilerNew ==
    /\ lexer_lexdata = <<>>
    /\ lexer_lexpos = 1
    /\ symbol_table = EmptyDict
    /\ diags = <<>>
    /\ ast = None
    /\ perr = "none"
    /\ module = [funcs |-> << [name |-> "printf", params |-> <<"i8*">>, blocks |-> <<>>, slots |-> 0],
                            [name |-> "scanf", params |-> <<"i8*">>, blocks |-> <<>>, slots |-> 0] >>,
                 globals |-> << [ns |-> "fn", name |-> "printf"], [ns |-> "fn", name |-> "scanf"] >>]
    /\ builder = None
    /\ function = None
    /\ variables = EmptyDict
    /\ functions = EmptyDict
    /\ fmt_globals = EmptyDict
    /\ frames = <<>>
    /\ gerr = "none"
    /\ lexer_lineno = 1

\* nothing has been called yet
CallerNew ==
    /\ earlier = None
    /\ conv = None
    /\ gret = "none"
    /\ merr = "none"

\* The hash key of the interpreter.  With PYTHONHASHSEED set the key is a
\* function of its value: under 0 "bvco" agrees with "jebl" and "cxs" with
\* "kbyv", under 1 no two strings of the programs agree.  With PYTHONHASHSEED
\* unset the key is drawn at random, and any two strings can agree.
HashSeed0 == { {"bvco", "jebl"}, {"cxs", "kbyv"} }
HashSeed1 == {}

RECURSIVE Hashed(_)
\* the strings the lowering of an expression can hash: its string literals
\* and its names (a name that is no variable is taken for a string)
Hashed(e) ==
    CASE e.k \in {"STRING", "IDENTIFIER"} -> {e.s}
      [] e.k \in {"paren", "not"} -> Hashed(e.e)
      [] e.k \in {"term", "arith", "cmp", "logic"} -> Hashed(e.l) \cup Hashed(e.r)
      [] e.k = "call" -> UNION { Hashed(e.args[i]) : i \in DOMAIN e.args }
      [] OTHER -> {}
RECURSIVE HashedIn(_)
RECURSIVE HashedBy(_)
HashedIn(items) ==
    IF items = <<>> THEN {} ELSE HashedBy(items[1]) \cup HashedIn(Tail(items))
HashedBy(s) ==
    CASE s.k \in {"decl_init", "assign", "print", "return"} -> Hashed(s.e)
      [] s.k = "fcall_stmt" -> UNION { Hashed(s.args[i]) : i \in DOMAIN s.args }
      [] s.k \in {"if", "while"} -> Hashed(s.c) \cup HashedIn(s.body)
      [] s.k = "if_else" -> Hashed(s.c) \cup HashedIn(s.body) \cup HashedIn(s.ebody)
      [] s.k = "for" ->
            HashedBy(s.init) \cup Hashed(s.c) \cup Hashed(s.incr.e) \cup HashedIn(s.body)
      [] s.k = "fdecl" -> HashedIn(s.body)
      [] OTHER -> {}
RECURSIVE PrintsIn(_)
RECURSIVE PrintsBy(_)
\* the print statements of a program
PrintsIn(items) == IF items = <<>> THEN 0 ELSE PrintsBy(items[1]) + PrintsIn(Tail(items))
PrintsBy(s) ==
    CASE s.k = "print" -> 1
      [] s.k \in {"if", "while", "for", "fdecl"} -> PrintsIn(s.body)
      [] s.k = "if_else" -> PrintsIn(s.body) + PrintsIn(s.ebody)
      [] OTHER -> 0
\* the format strings a program can hash: one for every print, of three
FormatsIn(items) == IF PrintsIn(items) >= 2 THEN {"%d", "%f", "%s"} ELSE {}

\* a key as a program tells it from others: by the strings it hashes
Restricted(seed, strings) ==
    { class \cap strings : class \in { c \in seed : Cardinality(c \cap strings) >= 2 } }
Pairs(strings) == { pair \in SUBSET strings : Cardinality(pair) = 2 }
\* the keys told apart for a program: PYTHONHASHSEED 0 and 1, and the keys
\* under which two of its strings agree.  (The first global whose name is
\* taken ends generate, so a key under which more strings agree lowers the
\* program as the key does under which only the first two to meet agree.)
HashSeeds(items) ==
    { Restricted(HashSeed0, HashedIn(items)), Restricted(HashSeed1, HashedIn(items)) }
        \cup { {pair} : pair \in Pairs(HashedIn(items)) \cup Pairs(FormatsIn(items)) }

\* main.py run on a program
Init ==
    /\ src \in Programs
    /\ phase = "lex"
    /\ CompilerNew
    /\ CallerNew
    /\ hashseed \in HashSeeds(src)
    /\ SymbolTableNew
    /\ LexerNew

\* the programs parse is called twice with
ParserPrograms == Programs \ ControlFlowPrograms

\* a Parser on which parse is about to be called
ParserInit ==
    /\ src \in ParserPrograms
    /\ phase = "start"
    /\ CompilerNew
    /\ CallerNew
    /\ hashseed = {}
    /\ SymbolTableNew
    /\ LexerNew

\* the compiler is not run
CompilerIdle ==
    /\ src = <<>>
    /\ phase = "idle"
    /\ CompilerNew
    /\ CallerNew
    /\ hashseed = {}

\* the value the lexer gives a token, as the actions see it in p[i]
Value(tok) ==
    CASE tok.type = "INTEGER" -> [k |-> "int", n |-> tok.value]
      [] tok.type = "FLOAT" -> [k |-> "float", n |-> tok.value]
      [] OTHER -> Text(Str(tok.value))

\* p_error: prints the token (a number as its value), or that the input
\* ended; raises nothing
p_error(ds, p) ==
    IF p = None
    THEN Append(ds, [kind |-> "SyntaxError", what |-> "EOF"])
    ELSE Append(ds, [kind |-> "SyntaxError", what |-> IF p.type \in {"INTEGER", "FLOAT"} THEN Value(p) ELSE Str(p.value),
                     type |-> p.type,
                     line |-> p.lineno])

\* sets of tokens on which many states do the same: those that can follow a
\* statement, a factor, a term and a logical expression, and those a factor starts with
FollowStatement ==
    {"$end", "BOOL_TYPE", "FLOAT_TYPE", "FOR", "FUNCTION", "IDENTIFIER", "IF", "INT_TYPE",
     "PRINT", "RBRACE", "READ", "RETURN", "STRING_TYPE", "WHILE"}
FollowFactor ==
    {"AND", "COMMA", "DIVIDE", "EQ", "GREATER_EQUAL", "GREATER_THAN", "LESS_EQUAL",
     "LESS_THAN", "MINUS", "MOD", "MULTIPLY", "NOT_EQUAL", "OR", "PLUS", "RPAREN", "SEMICOLON"}
FollowTerm ==
    {"AND", "COMMA", "EQ", "GREATER_EQUAL", "GREATER_THAN", "LESS_EQUAL", "LESS_THAN", "MINUS",
     "MOD", "NOT_EQUAL", "OR", "PLUS", "RPAREN", "SEMICOLON"}
FollowLogical ==
    {"AND", "COMMA", "OR", "RPAREN", "SEMICOLON"}
FirstFactor ==
    {"FALSE", "FLOAT", "IDENTIFIER", "INTEGER", "LPAREN", "STRING", "TRUE"}

\* the productions, numbered as ply numbers them: the rules of the p_ methods
\* in the order of their first lines, a method defined twice counting where it
\* is defined last; production 0 is S' -> program
Productions ==
    << [name |-> "program", len |-> 1, callable |-> "p_program"],
       [name |-> "statement_list", len |-> 1, callable |-> "p_statement_list"],
       [name |-> "statement_list", len |-> 2, callable |-> "p_statement_list"],
       [name |-> "statement", len |-> 1, callable |-> "p_statement"],
       [name |-> "statement", len |-> 1, callable |-> "p_statement"],
       [name |-> "statement", len |-> 1, callable |-> "p_statement"],
       [name |-> "statement", len |-> 1, callable |-> "p_statement"],
       [name |-> "statement", len |-> 1, callable |-> "p_statement"],
       [name |-> "statement", len |-> 1, callable |-> "p_statement"],
       [name |-> "statement", len |-> 1, callable |-> "p_statement"],
       [name |-> "statement", len |-> 1, callable |-> "p_statement"],
       [name |-> "statement", len |-> 1, callable |-> "p_statement"],
       [name |-> "statement", len |-> 1, callable |-> "p_statement"],
       [name |-> "empty", len |-> 0, callable |-> "p_empty"],
       [name |-> "function_call_statement", len |-> 2, callable |-> "p_function_call_statement"],
       [name |-> "declaration", len |-> 3, callable |-> "p_declaration"],
       [name |-> "declaration", len |-> 5, callable |-> "p_declaration"],
       [name |-> "type", len |-> 1, callable |-> "p_type"],
       [name |-> "type", len |-> 1, callable |-> "p_type"],
       [name |-> "type", len |-> 1, callable |-> "p_type"],
       [name |-> "type", len |-> 1, callable |-> "p_type"],
       [name |-> "assignment", len |-> 4, callable |-> "p_assignment"],
       [name |-> "expression", len |-> 1, callable |-> "p_expression"],
       [name |-> "expression", len |-> 1, callable |-> "p_expression"],
       [name |-> "logical_expr", len |-> 1, callable |-> "p_logical_expr"],
       [name |-> "logical_expr", len |-> 3, callable |-> "p_logical_expr"],
       [name |-> "logical_expr", len |-> 3, callable |-> "p_logical_expr"],
       [name |-> "logical_expr", len |-> 2, callable |-> "p_logical_expr"],
       [name |-> "comparison_expr", len |-> 1, callable |-> "p_comparison_expr"],
       [name |-> "comparison_expr", len |-> 3, callable |-> "p_comparison_expr"],
       [name |-> "comparison_op", len |-> 1, callable |-> "p_comparison_op"],
       [name |-> "comparison_op", len |-> 1, callable |-> "p_comparison_op"],
       [name |-> "comparison_op", len |-> 1, callable |-> "p_comparison_op"],
       [name |-> "comparison_op", len |-> 1, callable |-> "p_comparison_op"],
       [name |-> "comparison_op", len |-> 1, callable |-> "p_comparison_op"],
       [name |-> "comparison_op", len |-> 1, callable |-> "p_comparison_op"],
       [name |-> "arithmetic_expr", len |-> 1, callable |-> "p_arithmetic_expr"],
       [name |-> "arithmetic_expr", len |-> 3, callable |-> "p_arithmetic_expr"],
       [name |-> "arithmetic_expr", len |-> 3, callable |-> "p_arithmetic_expr"],
       [name |-> "arithmetic_expr", len |-> 3, callable |-> "p_arithmetic_expr"],
       [name |-> "term", len |-> 1, callable |-> "p_term"],
       [name |-> "term", len |-> 3, callable |-> "p_term"],
       [name |-> "term", len |-> 3, callable |-> "p_term"],
       [name |-> "factor", len |-> 1, callable |-> "p_factor"],
       [name |-> "factor", len |-> 1, callable |-> "p_factor"],
       [name |-> "factor", len |-> 1, callable |-> "p_factor"],
       [name |-> "factor", len |-> 1, callable |-> "p_factor"],
       [name |-> "factor", len |-> 1, callable |-> "p_factor"],
       [name |-> "factor", len |-> 1, callable |-> "p_factor"],
       [name |-> "factor", len |-> 3, callable |-> "p_factor"],
       [name |-> "function_declaration", len |-> 8, callable |-> "p_function_declaration"],
       [name |-> "parameter_list", len |-> 0, callable |-> "p_parameter_list"],
       [name |-> "parameter_list", len |-> 2, callable |-> "p_parameter_list"],
       [name |-> "parameter_list", len |-> 4, callable |-> "p_parameter_list"],
       [name |-> "function_call", len |-> 4, callable |-> "p_function_call"],
       [name |-> "argument_list", len |-> 0, callable |-> "p_argument_list"],
       [name |-> "argument_list", len |-> 1, callable |-> "p_argument_list"],
       [name |-> "argument_list", len |-> 3, callable |-> "p_argument_list"],
       [name |-> "conditional", len |-> 7, callable |-> "p_conditional"],
       [name |-> "conditional", len |-> 11, callable |-> "p_conditional"],
       [name |-> "loop", len |-> 7, callable |-> "p_loop"],
       [name |-> "loop", len |-> 10, callable |-> "p_loop"],
       [name |-> "for_increment", len |-> 3, callable |-> "p_for_increment_assignment"],
       [name |-> "for_increment", len |-> 1, callable |-> "p_for_increment_expr"],
       [name |-> "return_statement", len |-> 3, callable |-> "p_return_statement"],
       [name |-> "print_statement", len |-> 5, callable |-> "p_print_statement"],
       [name |-> "read_statement", len |-> 4, callable |-> "p_read_statement"] >>

\* the entries of a table that agree
On(symbols, entry) == [s \in symbols |-> entry]

\* the LALR(1) table of the grammar: for every state, first state 0, what the
\* driver does on a token: n > 0 shifts and goes to state n, n < 0 reduces by
\* production -n, 0 accepts.  No precedence is declared, so where a token can
\* be shifted it is shifted, and of two reductions the one of the earlier
\* production is made.
ActionTable ==
    << "$end" :> -14 @@ "IDENTIFIER" :> 15 @@ "FUNCTION" :> 16 @@ "IF" :> 18 @@ "WHILE" :> 19 @@
          "FOR" :> 20 @@ "RETURN" :> 21 @@ "PRINT" :> 22 @@ "READ" :> 23 @@ "INT_TYPE" :> 24 @@
          "FLOAT_TYPE" :> 25 @@ "STRING_TYPE" :> 26 @@ "BOOL_TYPE" :> 27,
       "$end" :> 0,
       "$end" :> -1 @@ "IDENTIFIER" :> 15 @@ "FUNCTION" :> 16 @@ "IF" :> 18 @@ "WHILE" :> 19 @@
          "FOR" :> 20 @@ "RETURN" :> 21 @@ "PRINT" :> 22 @@ "READ" :> 23 @@ "INT_TYPE" :> 24 @@
          "FLOAT_TYPE" :> 25 @@ "STRING_TYPE" :> 26 @@ "BOOL_TYPE" :> 27,
       On(FollowStatement, -2),
       On(FollowStatement, -4),
       On(FollowStatement, -5),
       On(FollowStatement, -6),
       On(FollowStatement, -7),
       On(FollowStatement, -8),
       On(FollowStatement, -9),
       On(FollowStatement, -10),
       On(FollowStatement, -11),
       On(FollowStatement, -12),
       On(FollowStatement, -13),
       "IDENTIFIER" :> 29,
       "EQUALS" :> 30 @@ "LPAREN" :> 31,
       "IDENTIFIER" :> 32,
       "SEMICOLON" :> 33,
       "LPAREN" :> 34,
       "LPAREN" :> 35,
       "LPAREN" :> 36,
       "NOT" :> 41 @@ "IDENTIFIER" :> 42 @@ "LPAREN" :> 43 @@ "INTEGER" :> 47 @@ "FLOAT" :> 48 @@
          "STRING" :> 49 @@ "TRUE" :> 50 @@ "FALSE" :> 51,
       "LPAREN" :> 52,
       "LPAREN" :> 53,
       "IDENTIFIER" :> -18,
       "IDENTIFIER" :> -19,
       "IDENTIFIER" :> -20,
       "IDENTIFIER" :> -21,
       On(FollowStatement, -3),
       "SEMICOLON" :> 54 @@ "EQUALS" :> 55,
       "NOT" :> 41 @@ "IDENTIFIER" :> 42 @@ "LPAREN" :> 43 @@ "INTEGER" :> 47 @@ "FLOAT" :> 48 @@
          "STRING" :> 49 @@ "TRUE" :> 50 @@ "FALSE" :> 51,
       On({"COMMA", "RPAREN"}, -56) @@ "NOT" :> 41 @@ "IDENTIFIER" :> 42 @@ "LPAREN" :> 43 @@
          "INTEGER" :> 47 @@ "FLOAT" :> 48 @@ "STRING" :> 49 @@ "TRUE" :> 50 @@ "FALSE" :> 51,
       "LPAREN" :> 59,
       On(FollowStatement, -15),
       "NOT" :> 41 @@ "IDENTIFIER" :> 42 @@ "LPAREN" :> 43 @@ "INTEGER" :> 47 @@ "FLOAT" :> 48 @@
          "STRING" :> 49 @@ "TRUE" :> 50 @@ "FALSE" :> 51,
       "NOT" :> 41 @@ "IDENTIFIER" :> 42 @@ "LPAREN" :> 43 @@ "INTEGER" :> 47 @@ "FLOAT" :> 48 @@
          "STRING" :> 49 @@ "TRUE" :> 50 @@ "FALSE" :> 51,
       "INT_TYPE" :> 24 @@ "FLOAT_TYPE" :> 25 @@ "STRING_TYPE" :> 26 @@ "BOOL_TYPE" :> 27,
       "SEMICOLON" :> 63,
       On({"COMMA", "RPAREN", "SEMICOLON"}, -23) @@ "AND" :> 64 @@ "OR" :> 65,
       On({"COMMA", "RPAREN", "SEMICOLON"}, -24),
       On(FollowLogical, -25),
       "LPAREN" :> 43 @@ "INTEGER" :> 47 @@ "FLOAT" :> 48 @@ "STRING" :> 49 @@ "TRUE" :> 50 @@
          "FALSE" :> 51 @@ "IDENTIFIER" :> 67,
       On(FollowFactor, -49) @@ "LPAREN" :> 31,
       "NOT" :> 41 @@ "IDENTIFIER" :> 42 @@ "LPAREN" :> 43 @@ "INTEGER" :> 47 @@ "FLOAT" :> 48 @@
          "STRING" :> 49 @@ "TRUE" :> 50 @@ "FALSE" :> 51,
       On(FollowLogical, -29) @@ "PLUS" :> 70 @@ "MINUS" :> 71 @@ "MOD" :> 72 @@ "LESS_THAN" :> 73
          @@ "GREATER_THAN" :> 74 @@ "LESS_EQUAL" :> 75 @@ "GREATER_EQUAL" :> 76 @@ "EQ" :> 77 @@
          "NOT_EQUAL" :> 78,
       On(FollowTerm, -37) @@ "MULTIPLY" :> 79 @@ "DIVIDE" :> 80,
       On(FollowFactor, -41),
       On(FollowFactor, -44),
       On(FollowFactor, -45),
       On(FollowFactor, -46),
       On(FollowFactor, -47),
       On(FollowFactor, -48),
       "NOT" :> 41 @@ "IDENTIFIER" :> 42 @@ "LPAREN" :> 43 @@ "INTEGER" :> 47 @@ "FLOAT" :> 48 @@
          "STRING" :> 49 @@ "TRUE" :> 50 @@ "FALSE" :> 51,
       "RPAREN" :> 82,
       On({"$end", "BOOL_TYPE", "FALSE", "FLOAT", "FLOAT_TYPE", "FOR", "FUNCTION", "IDENTIFIER",
          "IF", "INTEGER", "INT_TYPE", "LPAREN", "NOT", "PRINT", "RBRACE", "READ", "RETURN", "STRING",
          "STRING_TYPE", "TRUE", "WHILE"}, -16),
       "NOT" :> 41 @@ "IDENTIFIER" :> 42 @@ "LPAREN" :> 43 @@ "INTEGER" :> 47 @@ "FLOAT" :> 48 @@
          "STRING" :> 49 @@ "TRUE" :> 50 @@ "FALSE" :> 51,
       "SEMICOLON" :> 84,
       "RPAREN" :> 85 @@ "COMMA" :> 86,
       On({"COMMA", "RPAREN"}, -57),
       On({"COMMA", "RPAREN"}, -52) @@ "INT_TYPE" :> 24 @@ "FLOAT_TYPE" :> 25 @@
          "STRING_TYPE" :> 26 @@ "BOOL_TYPE" :> 27,
       "RPAREN" :> 89,
       "RPAREN" :> 90,
       "NOT" :> 41 @@ "IDENTIFIER" :> 42 @@ "LPAREN" :> 43 @@ "INTEGER" :> 47 @@ "FLOAT" :> 48 @@
          "STRING" :> 49 @@ "TRUE" :> 50 @@ "FALSE" :> 51,
       On(FollowStatement, -65),
       "LPAREN" :> 43 @@ "INTEGER" :> 47 @@ "FLOAT" :> 48 @@ "STRING" :> 49 @@ "TRUE" :> 50 @@
          "FALSE" :> 51 @@ "IDENTIFIER" :> 67,
       "LPAREN" :> 43 @@ "INTEGER" :> 47 @@ "FLOAT" :> 48 @@ "STRING" :> 49 @@ "TRUE" :> 50 @@
          "FALSE" :> 51 @@ "IDENTIFIER" :> 67,
       On(FollowLogical, -28),
       On(FollowFactor, -49),
       "RPAREN" :> 94,
       "LPAREN" :> 43 @@ "INTEGER" :> 47 @@ "FLOAT" :> 48 @@ "STRING" :> 49 @@ "TRUE" :> 50 @@
          "FALSE" :> 51 @@ "IDENTIFIER" :> 67,
       "LPAREN" :> 43 @@ "INTEGER" :> 47 @@ "FLOAT" :> 48 @@ "STRING" :> 49 @@ "TRUE" :> 50 @@
          "FALSE" :> 51 @@ "IDENTIFIER" :> 67,
       "LPAREN" :> 43 @@ "INTEGER" :> 47 @@ "FLOAT" :> 48 @@ "STRING" :> 49 @@ "TRUE" :> 50 @@
          "FALSE" :> 51 @@ "IDENTIFIER" :> 67,
       "LPAREN" :> 43 @@ "INTEGER" :> 47 @@ "FLOAT" :> 48 @@ "STRING" :> 49 @@ "TRUE" :> 50 @@
          "FALSE" :> 51 @@ "IDENTIFIER" :> 67,
       On(FirstFactor, -31),
       On(FirstFactor, -32),
       On(FirstFactor, -33),
       On(FirstFactor, -34),
       On(FirstFactor, -35),
       On(FirstFactor, -36),
       "LPAREN" :> 43 @@ "INTEGER" :> 47 @@ "FLOAT" :> 48 @@ "STRING" :> 49 @@ "TRUE" :> 50 @@
          "FALSE" :> 51 @@ "IDENTIFIER" :> 67,
       "LPAREN" :> 43 @@ "INTEGER" :> 47 @@ "FLOAT" :> 48 @@ "STRING" :> 49 @@ "TRUE" :> 50 @@
          "FALSE" :> 51 @@ "IDENTIFIER" :> 67,
       "RPAREN" :> 101,
       "SEMICOLON" :> 102,
       "SEMICOLON" :> 103,
       On(FollowStatement, -22),
       On({"COMMA", "RPAREN", "SEMICOLON"}, -55),
       "NOT" :> 41 @@ "IDENTIFIER" :> 42 @@ "LPAREN" :> 43 @@ "INTEGER" :> 47 @@ "FLOAT" :> 48 @@
          "STRING" :> 49 @@ "TRUE" :> 50 @@ "FALSE" :> 51,
       "RPAREN" :> 105 @@ "COMMA" :> 106,
       "IDENTIFIER" :> 107,
       "LBRACE" :> 108,
       "LBRACE" :> 109,
       "SEMICOLON" :> 110,
       On(FollowLogical, -26),
       On(FollowLogical, -27),
       On(FollowFactor, -50),
       On(FollowLogical, -30) @@ "PLUS" :> 70 @@ "MINUS" :> 71 @@ "MOD" :> 72,
       On(FollowTerm, -38) @@ "MULTIPLY" :> 79 @@ "DIVIDE" :> 80,
       On(FollowTerm, -39) @@ "MULTIPLY" :> 79 @@ "DIVIDE" :> 80,
       On(FollowTerm, -40) @@ "MULTIPLY" :> 79 @@ "DIVIDE" :> 80,
       On(FollowFactor, -42),
       On(FollowFactor, -43),
       "SEMICOLON" :> 111,
       On(FollowStatement, -67),
       On({"$end", "BOOL_TYPE", "FALSE", "FLOAT", "FLOAT_TYPE", "FOR", "FUNCTION", "IDENTIFIER",
          "IF", "INTEGER", "INT_TYPE", "LPAREN", "NOT", "PRINT", "RBRACE", "READ", "RETURN", "STRING",
          "STRING_TYPE", "TRUE", "WHILE"}, -17),
       On({"COMMA", "RPAREN"}, -58),
       "LBRACE" :> 112,
       "INT_TYPE" :> 24 @@ "FLOAT_TYPE" :> 25 @@ "STRING_TYPE" :> 26 @@ "BOOL_TYPE" :> 27,
       On({"COMMA", "RPAREN"}, -53),
       "RBRACE" :> -14 @@ "IDENTIFIER" :> 15 @@ "FUNCTION" :> 16 @@ "IF" :> 18 @@ "WHILE" :> 19 @@
          "FOR" :> 20 @@ "RETURN" :> 21 @@ "PRINT" :> 22 @@ "READ" :> 23 @@ "INT_TYPE" :> 24 @@
          "FLOAT_TYPE" :> 25 @@ "STRING_TYPE" :> 26 @@ "BOOL_TYPE" :> 27,
       "RBRACE" :> -14 @@ "IDENTIFIER" :> 15 @@ "FUNCTION" :> 16 @@ "IF" :> 18 @@ "WHILE" :> 19 @@
          "FOR" :> 20 @@ "RETURN" :> 21 @@ "PRINT" :> 22 @@ "READ" :> 23 @@ "INT_TYPE" :> 24 @@
          "FLOAT_TYPE" :> 25 @@ "STRING_TYPE" :> 26 @@ "BOOL_TYPE" :> 27,
       "NOT" :> 41 @@ "LPAREN" :> 43 @@ "INTEGER" :> 47 @@ "FLOAT" :> 48 @@ "STRING" :> 49 @@
          "TRUE" :> 50 @@ "FALSE" :> 51 @@ "IDENTIFIER" :> 118,
       On(FollowStatement, -66),
       "RBRACE" :> -14 @@ "IDENTIFIER" :> 15 @@ "FUNCTION" :> 16 @@ "IF" :> 18 @@ "WHILE" :> 19 @@
          "FOR" :> 20 @@ "RETURN" :> 21 @@ "PRINT" :> 22 @@ "READ" :> 23 @@ "INT_TYPE" :> 24 @@
          "FLOAT_TYPE" :> 25 @@ "STRING_TYPE" :> 26 @@ "BOOL_TYPE" :> 27,
       "IDENTIFIER" :> 120,
       "IDENTIFIER" :> 15 @@ "FUNCTION" :> 16 @@ "IF" :> 18 @@ "WHILE" :> 19 @@ "FOR" :> 20 @@
          "RETURN" :> 21 @@ "PRINT" :> 22 @@ "READ" :> 23 @@ "INT_TYPE" :> 24 @@ "FLOAT_TYPE" :> 25 @@
          "STRING_TYPE" :> 26 @@ "BOOL_TYPE" :> 27 @@ "RBRACE" :> 121,
       "IDENTIFIER" :> 15 @@ "FUNCTION" :> 16 @@ "IF" :> 18 @@ "WHILE" :> 19 @@ "FOR" :> 20 @@
          "RETURN" :> 21 @@ "PRINT" :> 22 @@ "READ" :> 23 @@ "INT_TYPE" :> 24 @@ "FLOAT_TYPE" :> 25 @@
          "STRING_TYPE" :> 26 @@ "BOOL_TYPE" :> 27 @@ "RBRACE" :> 122,
       "RPAREN" :> -64,
       "RPAREN" :> 123,
       On({"AND", "DIVIDE", "EQ", "GREATER_EQUAL", "GREATER_THAN", "LESS_EQUAL", "LESS_THAN",
          "MINUS", "MOD", "MULTIPLY", "NOT_EQUAL", "OR", "PLUS", "RPAREN"}, -49) @@ "LPAREN" :> 31 @@
          "EQUALS" :> 124,
       "IDENTIFIER" :> 15 @@ "FUNCTION" :> 16 @@ "IF" :> 18 @@ "WHILE" :> 19 @@ "FOR" :> 20 @@
          "RETURN" :> 21 @@ "PRINT" :> 22 @@ "READ" :> 23 @@ "INT_TYPE" :> 24 @@ "FLOAT_TYPE" :> 25 @@
          "STRING_TYPE" :> 26 @@ "BOOL_TYPE" :> 27 @@ "RBRACE" :> 125,
       On({"COMMA", "RPAREN"}, -54),
       On(FollowStatement, -59) @@ "ELSE" :> 126,
       On(FollowStatement, -61),
       "LBRACE" :> 127,
       "NOT" :> 41 @@ "IDENTIFIER" :> 42 @@ "LPAREN" :> 43 @@ "INTEGER" :> 47 @@ "FLOAT" :> 48 @@
          "STRING" :> 49 @@ "TRUE" :> 50 @@ "FALSE" :> 51,
       On(FollowStatement, -51),
       "LBRACE" :> 129,
       "RBRACE" :> -14 @@ "IDENTIFIER" :> 15 @@ "FUNCTION" :> 16 @@ "IF" :> 18 @@ "WHILE" :> 19 @@
          "FOR" :> 20 @@ "RETURN" :> 21 @@ "PRINT" :> 22 @@ "READ" :> 23 @@ "INT_TYPE" :> 24 @@
          "FLOAT_TYPE" :> 25 @@ "STRING_TYPE" :> 26 @@ "BOOL_TYPE" :> 27,
       "RPAREN" :> -63,
       "RBRACE" :> -14 @@ "IDENTIFIER" :> 15 @@ "FUNCTION" :> 16 @@ "IF" :> 18 @@ "WHILE" :> 19 @@
          "FOR" :> 20 @@ "RETURN" :> 21 @@ "PRINT" :> 22 @@ "READ" :> 23 @@ "INT_TYPE" :> 24 @@
          "FLOAT_TYPE" :> 25 @@ "STRING_TYPE" :> 26 @@ "BOOL_TYPE" :> 27,
       "IDENTIFIER" :> 15 @@ "FUNCTION" :> 16 @@ "IF" :> 18 @@ "WHILE" :> 19 @@ "FOR" :> 20 @@
          "RETURN" :> 21 @@ "PRINT" :> 22 @@ "READ" :> 23 @@ "INT_TYPE" :> 24 @@ "FLOAT_TYPE" :> 25 @@
          "STRING_TYPE" :> 26 @@ "BOOL_TYPE" :> 27 @@ "RBRACE" :> 132,
       "IDENTIFIER" :> 15 @@ "FUNCTION" :> 16 @@ "IF" :> 18 @@ "WHILE" :> 19 @@ "FOR" :> 20 @@
          "RETURN" :> 21 @@ "PRINT" :> 22 @@ "READ" :> 23 @@ "INT_TYPE" :> 24 @@ "FLOAT_TYPE" :> 25 @@
          "STRING_TYPE" :> 26 @@ "BOOL_TYPE" :> 27 @@ "RBRACE" :> 133,
       On(FollowStatement, -62),
       On(FollowStatement, -60) >>

\* the state the driver goes to after a reduction to a nonterminal
GotoTable ==
    << "program" :> 1 @@ "statement_list" :> 2 @@ "statement" :> 3 @@ "declaration" :> 4 @@
          "assignment" :> 5 @@ "function_declaration" :> 6 @@ "function_call_statement" :> 7 @@
          "conditional" :> 8 @@ "loop" :> 9 @@ "return_statement" :> 10 @@ "print_statement" :> 11 @@
          "read_statement" :> 12 @@ "empty" :> 13 @@ "type" :> 14 @@ "function_call" :> 17,
       On({}, 0),
       "declaration" :> 4 @@ "assignment" :> 5 @@ "function_declaration" :> 6 @@
          "function_call_statement" :> 7 @@ "conditional" :> 8 @@ "loop" :> 9 @@
          "return_statement" :> 10 @@ "print_statement" :> 11 @@ "read_statement" :> 12 @@
          "empty" :> 13 @@ "type" :> 14 @@ "function_call" :> 17 @@ "statement" :> 28,
       On({}, 0),
       On({}, 0),
       On({}, 0),
       On({}, 0),
       On({}, 0),
       On({}, 0),
       On({}, 0),
       On({}, 0),
       On({}, 0),
       On({}, 0),
       On({}, 0),
       On({}, 0),
       On({}, 0),
       On({}, 0),
       On({}, 0),
       On({}, 0),
       On({}, 0),
       On({}, 0),
       "expression" :> 37 @@ "logical_expr" :> 38 @@ "function_call" :> 39 @@
          "comparison_expr" :> 40 @@ "arithmetic_expr" :> 44 @@ "term" :> 45 @@ "factor" :> 46,
       On({}, 0),
       On({}, 0),
       On({}, 0),
       On({}, 0),
       On({}, 0),
       On({}, 0),
       On({}, 0),
       On({}, 0),
       "logical_expr" :> 38 @@ "function_call" :> 39 @@ "comparison_expr" :> 40 @@
          "arithmetic_expr" :> 44 @@ "term" :> 45 @@ "factor" :> 46 @@ "expression" :> 56,
       "logical_expr" :> 38 @@ "function_call" :> 39 @@ "comparison_expr" :> 40 @@
          "arithmetic_expr" :> 44 @@ "term" :> 45 @@ "factor" :> 46 @@ "argument_list" :> 57 @@
          "expression" :> 58,
       On({}, 0),
       On({}, 0),
       "logical_expr" :> 38 @@ "function_call" :> 39 @@ "comparison_expr" :> 40 @@
          "arithmetic_expr" :> 44 @@ "term" :> 45 @@ "factor" :> 46 @@ "expression" :> 60,
       "logical_expr" :> 38 @@ "function_call" :> 39 @@ "comparison_expr" :> 40 @@
          "arithmetic_expr" :> 44 @@ "term" :> 45 @@ "factor" :> 46 @@ "expression" :> 61,
       "type" :> 14 @@ "declaration" :> 62,
       On({}, 0),
       On({}, 0),
       On({}, 0),
       On({}, 0),
       "arithmetic_expr" :> 44 @@ "term" :> 45 @@ "factor" :> 46 @@ "comparison_expr" :> 66,
       On({}, 0),
       "logical_expr" :> 38 @@ "function_call" :> 39 @@ "comparison_expr" :> 40 @@
          "arithmetic_expr" :> 44 @@ "term" :> 45 @@ "factor" :> 46 @@ "expression" :> 68,
       "comparison_op" :> 69,
       On({}, 0),
       On({}, 0),
       On({}, 0),
       On({}, 0),
       On({}, 0),
       On({}, 0),
       On({}, 0),
       "logical_expr" :> 38 @@ "function_call" :> 39 @@ "comparison_expr" :> 40 @@
          "arithmetic_expr" :> 44 @@ "term" :> 45 @@ "factor" :> 46 @@ "expression" :> 81,
       On({}, 0),
       On({}, 0),
       "logical_expr" :> 38 @@ "function_call" :> 39 @@ "comparison_expr" :> 40 @@
          "arithmetic_expr" :> 44 @@ "term" :> 45 @@ "factor" :> 46 @@ "expression" :> 83,
       On({}, 0),
       On({}, 0),
       On({}, 0),
       "parameter_list" :> 87 @@ "type" :> 88,
       On({}, 0),
       On({}, 0),
       "logical_expr" :> 38 @@ "function_call" :> 39 @@ "comparison_expr" :> 40 @@
          "arithmetic_expr" :> 44 @@ "term" :> 45 @@ "factor" :> 46 @@ "expression" :> 91,
       On({}, 0),
       "arithmetic_expr" :> 44 @@ "term" :> 45 @@ "factor" :> 46 @@ "comparison_expr" :> 92,
       "arithmetic_expr" :> 44 @@ "term" :> 45 @@ "factor" :> 46 @@ "comparison_expr" :> 93,
       On({}, 0),
       On({}, 0),
       On({}, 0),
       "term" :> 45 @@ "factor" :> 46 @@ "arithmetic_expr" :> 95,
       "factor" :> 46 @@ "term" :> 96,
       "factor" :> 46 @@ "term" :> 97,
       "factor" :> 46 @@ "term" :> 98,
       On({}, 0),
       On({}, 0),
       On({}, 0),
       On({}, 0),
       On({}, 0),
       On({}, 0),
       "factor" :> 99,
       "factor" :> 100,
       On({}, 0),
       On({}, 0),
       On({}, 0),
       On({}, 0),
       On({}, 0),
       "logical_expr" :> 38 @@ "function_call" :> 39 @@ "comparison_expr" :> 40 @@
          "arithmetic_expr" :> 44 @@ "term" :> 45 @@ "factor" :> 46 @@ "expression" :> 104,
       On({}, 0),
       On({}, 0),
       On({}, 0),
       On({}, 0),
       On({}, 0),
       On({}, 0),
       On({}, 0),
       On({}, 0),
       On({}, 0),
       On({}, 0),
       On({}, 0),
       On({}, 0),
       On({}, 0),
       On({}, 0),
       On({}, 0),
       On({}, 0),
       On({}, 0),
       On({}, 0),
       On({}, 0),
       "type" :> 113,
       On({}, 0),
       "statement" :> 3 @@ "declaration" :> 4 @@ "assignment" :> 5 @@ "function_declaration" :> 6
          @@ "function_call_statement" :> 7 @@ "conditional" :> 8 @@ "loop" :> 9 @@
          "return_statement" :> 10 @@ "print_statement" :> 11 @@ "read_statement" :> 12 @@
          "empty" :> 13 @@ "type" :> 14 @@ "function_call" :> 17 @@ "statement_list" :> 114,
       "statement" :> 3 @@ "declaration" :> 4 @@ "assignment" :> 5 @@ "function_declaration" :> 6
          @@ "function_call_statement" :> 7 @@ "conditional" :> 8 @@ "loop" :> 9 @@
          "return_statement" :> 10 @@ "print_statement" :> 11 @@ "read_statement" :> 12 @@
          "empty" :> 13 @@ "type" :> 14 @@ "function_call" :> 17 @@ "statement_list" :> 115,
       "logical_expr" :> 38 @@ "function_call" :> 39 @@ "comparison_expr" :> 40 @@
          "arithmetic_expr" :> 44 @@ "term" :> 45 @@ "factor" :> 46 @@ "expression" :> 116 @@
          "for_increment" :> 117,
       On({}, 0),
       "statement" :> 3 @@ "declaration" :> 4 @@ "assignment" :> 5 @@ "function_declaration" :> 6
          @@ "function_call_statement" :> 7 @@ "conditional" :> 8 @@ "loop" :> 9 @@
          "return_statement" :> 10 @@ "print_statement" :> 11 @@ "read_statement" :> 12 @@
          "empty" :> 13 @@ "type" :> 14 @@ "function_call" :> 17 @@ "statement_list" :> 119,
       On({}, 0),
       "declaration" :> 4 @@ "assignment" :> 5 @@ "function_declaration" :> 6 @@
          "function_call_statement" :> 7 @@ "conditional" :> 8 @@ "loop" :> 9 @@
          "return_statement" :> 10 @@ "print_statement" :> 11 @@ "read_statement" :> 12 @@
          "empty" :> 13 @@ "type" :> 14 @@ "function_call" :> 17 @@ "statement" :> 28,
       "declaration" :> 4 @@ "assignment" :> 5 @@ "function_declaration" :> 6 @@
          "function_call_statement" :> 7 @@ "conditional" :> 8 @@ "loop" :> 9 @@
          "return_statement" :> 10 @@ "print_statement" :> 11 @@ "read_statement" :> 12 @@
          "empty" :> 13 @@ "type" :> 14 @@ "function_call" :> 17 @@ "statement" :> 28,
       On({}, 0),
       On({}, 0),
       On({}, 0),
       "declaration" :> 4 @@ "assignment" :> 5 @@ "function_declaration" :> 6 @@
          "function_call_statement" :> 7 @@ "conditional" :> 8 @@ "loop" :> 9 @@
          "return_statement" :> 10 @@ "print_statement" :> 11 @@ "read_statement" :> 12 @@
          "empty" :> 13 @@ "type" :> 14 @@ "function_call" :> 17 @@ "statement" :> 28,
       On({}, 0),
       On({}, 0),
       On({}, 0),
       On({}, 0),
       "logical_expr" :> 38 @@ "function_call" :> 39 @@ "comparison_expr" :> 40 @@
          "arithmetic_expr" :> 44 @@ "term" :> 45 @@ "factor" :> 46 @@ "expression" :> 128,
       On({}, 0),
       On({}, 0),
       "statement" :> 3 @@ "declaration" :> 4 @@ "assignment" :> 5 @@ "function_declaration" :> 6
          @@ "function_call_statement" :> 7 @@ "conditional" :> 8 @@ "loop" :> 9 @@
          "return_statement" :> 10 @@ "print_statement" :> 11 @@ "read_statement" :> 12 @@
          "empty" :> 13 @@ "type" :> 14 @@ "function_call" :> 17 @@ "statement_list" :> 130,
       On({}, 0),
       "statement" :> 3 @@ "declaration" :> 4 @@ "assignment" :> 5 @@ "function_declaration" :> 6
          @@ "function_call_statement" :> 7 @@ "conditional" :> 8 @@ "loop" :> 9 @@
          "return_statement" :> 10 @@ "print_statement" :> 11 @@ "read_statement" :> 12 @@
          "empty" :> 13 @@ "type" :> 14 @@ "function_call" :> 17 @@ "statement_list" :> 131,
       "declaration" :> 4 @@ "assignment" :> 5 @@ "function_declaration" :> 6 @@
          "function_call_statement" :> 7 @@ "conditional" :> 8 @@ "loop" :> 9 @@
          "return_statement" :> 10 @@ "print_statement" :> 11 @@ "read_statement" :> 12 @@
          "empty" :> 13 @@ "type" :> 14 @@ "function_call" :> 17 @@ "statement" :> 28,
       "declaration" :> 4 @@ "assignment" :> 5 @@ "function_declaration" :> 6 @@
          "function_call_statement" :> 7 @@ "conditional" :> 8 @@ "loop" :> 9 @@
          "return_statement" :> 10 @@ "print_statement" :> 11 @@ "read_statement" :> 12 @@
          "empty" :> 13 @@ "type" :> 14 @@ "function_call" :> 17 @@ "statement" :> 28,
       On({}, 0),
       On({}, 0) >>

\* actions[state] and goto[state] of the driver; its states count from 0
action(state) == ActionTable[state + 1]
goto(state) == GotoTable[state + 1]

\* LRParser.set_defaulted_states: the states whose one action is a reduction,
\* which the driver makes without reading a token
defaulted_states ==
    { state \in 0..(Len(ActionTable) - 1) :
        /\ Cardinality(DOMAIN action(state)) = 1
        /\ \A ltype \in DOMAIN action(state) : action(state)[ltype] < 0 }
Defaulted(state) == action(state)[CHOOSE ltype \in DOMAIN action(state) : TRUE]

YaccSymbol(type, value) == [type |-> type, value |-> value]
Last(stack) == stack[Len(stack)]
Drop(stack, n) == SubSeq(stack, 1, Len(stack) - n)

RECURSIVE Seek(_, _, _, _)
\* lexer.token() from the position p on, with what t_error printed on the way;
\* at the end of the input it leaves lexpos one further and returns None; an
\* exception of a rule leaves it
Sought(turn, data, printed) ==
    IF turn.err # "none"
    THEN [tok |-> None, pos |-> turn.pos, line |-> turn.line, diags |-> printed, err |-> turn.err]
    ELSE IF turn.out # <<>>
    THEN [tok |-> turn.out[1], pos |-> turn.pos, line |-> turn.line,
          diags |-> printed \o turn.diag, err |-> "none"]
    ELSE Seek(data, turn.pos, turn.line, printed \o turn.diag)
Seek(data, p, line, printed) ==
    IF p > Len(data)
    THEN [tok |-> None, pos |-> p + 1, line |-> line, diags |-> printed, err |-> "none"]
    ELSE Sought(LexStep(data, p, line), data, printed)

\* lexer.token() as the driver calls it: the token, None at the end of the
\* input, the position and the line counter of the lexer afterwards, what
\* t_error printed and the exception if a rule raised one
token(data, p, line) == Seek(data, p, line, <<>>)

\* t_error's print of an illegal character, among the prints of the parser
Illegal(printed) ==
    [i \in DOMAIN printed |->
        [kind |-> "IllegalCharacter", what |-> printed[i].char, line |-> printed[i].lineno]]

\* The driver, LRParser.parseopt_notrack of ply, as the machine M: its locals
\* statestack, symstack, lookahead, lookaheadstack and errorcount, the parser
\* state tab and diags the actions work on, the lexer's lexpos and lineno;
\* halt tells why the machine stopped and result what parse returns.

\* yacc.py: statestack = [0], symstack = [$end], errorcount = 0
Locals0 ==
    [statestack |-> << 0 >>, symstack |-> << YaccSymbol("$end", None) >>,
     lookahead |-> None, lookaheadstack |-> <<>>, errorcount |-> 0]

\* the top of the loop: in a state that is not defaulted the lookahead is
\* taken from lookaheadstack or read from the lexer
Read(M, t) ==
    [M EXCEPT !.lookahead = IF t.tok = None THEN YaccSymbol("$end", None) ELSE t.tok,
              !.lexpos = t.pos, !.lineno = t.line,
              !.diags = @ \o Illegal(t.diags),
              !.halt = IF t.err = "none" THEN @ ELSE "raise",
              !.err = t.err]
Lookahead(M, data) ==
    IF Last(M.statestack) \in defaulted_states \/ M.lookahead # None THEN M
    ELSE IF M.lookaheadstack # <<>>
    THEN [M EXCEPT !.lookahead = Last(M.lookaheadstack), !.lookaheadstack = Drop(@, 1)]
    ELSE Read(M, token(data, M.lexpos, M.lineno))

\* t is not None
Fits(M) ==
    \/ Last(M.statestack) \in defaulted_states
    \/ M.lookahead.type \in DOMAIN action(Last(M.statestack))
T(M) ==
    IF Last(M.statestack) \in defaulted_states THEN Defaulted(Last(M.statestack))
    ELSE action(Last(M.statestack))[M.lookahead.type]

\* t > 0: the token is shifted
Shift(M, t) ==
    [M EXCEPT !.statestack = Append(@, t),
              !.symstack = Append(@, YaccSymbol(M.lookahead.type, Value(M.lookahead))),
              !.lookahead = None,
              !.errorcount = IF @ > 0 THEN @ - 1 ELSE @,
              !.halt = "shift"]

\* t < 0: the action of the production runs on the values of its right-hand
\* side, which leave the stacks, and the driver goes to the state goto gives
Reduced(M, prod, R) ==
    [M EXCEPT !.symstack = Append(Drop(@, prod.len), YaccSymbol(prod.name, R.v)),
              !.statestack = Append(Drop(@, prod.len),
                                    goto(Last(Drop(@, prod.len)))[prod.name]),
              !.tab = R.st.tab,
              !.diags = R.st.diags]
Reduce(M, prod) ==
    Reduced(M, prod,
            Callable(prod.callable, [tab |-> M.tab, diags |-> M.diags],
                     [i \in 1..prod.len |->
                          M.symstack[Len(M.symstack) - prod.len + i].value]))

\* t == 0: the value of the start symbol is returned
Accept(M) == [M EXCEPT !.halt = "accept", !.result = Last(M.symstack).value]

\* t is None: p_error is called when no error was met in the last three
\* shifts (errorok is true only before the first error, when errorcount is 0)
Errored(M) ==
    IF M.errorcount = 0
    THEN [M EXCEPT !.errorcount = 3,
                   !.diags = p_error(@, IF M.lookahead.type = "$end" THEN None
                                        ELSE M.lookahead)]
    ELSE [M EXCEPT !.errorcount = 3]

RECURSIVE Drive(_, _)
\* then, with nothing but state 0 on the stack, the token is dropped; at the
\* end of the input parse returns None; else the token makes way for the
\* symbol error, for which states are popped (no production holds error)
Recover(M, data) ==
    IF Len(M.statestack) <= 1 /\ M.lookahead.type # "$end"
    THEN [M EXCEPT !.lookahead = None, !.lookaheadstack = <<>>, !.halt = "discard"]
    ELSE IF M.lookahead.type = "$end"
    THEN [M EXCEPT !.halt = "return", !.result = None]
    ELSE IF M.lookahead.type # "error"
    THEN IF Last(M.symstack).type = "error"
         THEN [M EXCEPT !.lookahead = None, !.halt = "discard"]
         ELSE Drive([M EXCEPT !.lookaheadstack = Append(@, M.lookahead),
                              !.lookahead = YaccSymbol("error", M.lookahead)], data)
    ELSE Drive([M EXCEPT !.symstack = Drop(@, 1), !.statestack = Drop(@, 1)], data)

\* an exception of lexer.token() leaves the driver
Turn(M, data) ==
    IF M.halt = "raise" THEN M
    ELSE IF ~Fits(M) THEN Recover(Errored(M), data)
    ELSE IF T(M) > 0 THEN Shift(M, T(M))
    ELSE IF T(M) < 0 THEN Drive(Reduce(M, Productions[-T(M)]), data)
    ELSE Accept(M)

\* the loop of the driver, up to the turn that is done with a token (it is
\* shifted or dropped) or returns
Drive(M, data) == Turn(Lookahead(M, data), data)

RECURSIVE Parsed(_, _)
\* the loop up to the return of the driver, or to the exception that leaves it
Parsed(M, data) ==
    IF M.halt \in {"accept", "return", "raise"} THEN M
    ELSE Parsed(Drive([M EXCEPT !.halt = ""], data), data)

\* the machine of a call of parse, before the first turn of the loop
Machine ==
    [statestack |-> Locals0.statestack, symstack |-> Locals0.symstack,
     lookahead |-> Locals0.lookahead, lookaheadstack |-> Locals0.lookaheadstack,
     errorcount |-> Locals0.errorcount,
     tab |-> symbol_table, diags |-> diags, lexpos |-> lexer_lexpos, lineno |-> lexer_lineno,
     halt |-> "", result |-> None, err |-> "none"]

\* the driver has returned: what its actions and the lexer were left with.
\* An exception goes through parse (lines 457-461) to the caller, and ends it
Returns(M) ==
    /\ symbol_table' = M.tab
    /\ diags' = M.diags
    /\ lexer_lexpos' = M.lexpos
    /\ lexer_lineno' = M.lineno
    /\ ast' = IF M.halt = "raise" THEN ast ELSE M.result
    /\ perr' = M.err
    /\ merr' = IF M.halt = "raise" THEN M.err ELSE merr
    /\ phase' = IF M.halt = "raise" THEN "exit" ELSE "generate"
    /\ UNCHANGED <<src, lexer_lexdata, symtabVars, lexerVars, callerVars, gret>>
    /\ UNCHANGED genVars

\* parse, lines 446-453: the symbol table is reset; the driver gives the text
\* to the lexer (lexer.input sets lexdata and lexpos, not lineno)
ParseBegin ==
    /\ phase = "start"
    /\ phase' = "parse"
    /\ symbol_table' = EmptyDict
    /\ lexer_lexdata' = Render(src)
    /\ lexer_lexpos' = 1
    /\ UNCHANGED <<src, diags, ast, perr, lexer_lineno, otherVars>>
    /\ UNCHANGED genVars

\* the driver runs until it returns: the value of program when it has reduced
\* the whole input, None when the end of the input fits no action of the
\* state it is in; parse returns that value and the symbol table (lines
\* 452-456)
ParseReturn == phase = "parse" /\ Returns(Parsed(Machine, lexer_lexdata))

\* the caller keeps what parse returned and printed, and calls parse again
\* on the same Parser with the same source
ParseAgain ==
    /\ phase = "generate" /\ gerr = "none" /\ frames = <<>>
    /\ earlier = None
    /\ earlier' = [ast |-> ast, symbol_table |-> symbol_table, diags |-> diags]
    /\ phase' = "start"
    /\ diags' = <<>>
    /\ ast' = None
    /\ UNCHANGED <<src, lexer_lexdata, lexer_lexpos, symbol_table, perr, lexer_lineno, symtabVars, lexerVars, conv, hashseed, mainVars>>
    /\ UNCHANGED genVars

ParserNext ==
    \/ ParseBegin
    \/ ParseReturn
    \/ ParseAgain

\* one Parser, parse called twice with the same source
ParserSpec == ParserInit /\ [][ParserNext]_vars

-----------------------------------------------------------------------------
(* LLVMIRGenerator.generate.  frames is the stack of the running lowering  *)
(* methods that iterate over a list of statements, each with its locals;   *)
(* body and i are the list and the position of its for loop.               *)

GS == [module |-> module, builder |-> builder, function |-> function,
       variables |-> variables, functions |-> functions,
       fmt_globals |-> fmt_globals, diags |-> diags, err |-> "none"]

\* the state S becomes the generator's; an exception ends generate
CommitTo(S, ph) ==
    /\ module' = S.module
    /\ builder' = S.builder
    /\ function' = S.function
    /\ variables' = S.variables
    /\ functions' = S.functions
    /\ fmt_globals' = S.fmt_globals
    /\ diags' = S.diags
    /\ gerr' = S.err
    /\ phase' = IF S.err # "none" THEN "done" ELSE ph
    /\ UNCHANGED <<src, lexer_lexdata, lexer_lexpos, symbol_table, ast, perr, lexer_lineno>>

Commit(S) == CommitTo(S, phase) /\ UNCHANGED otherVars

\* generate returns ret, or goes on in the phase ph, unless S holds an exception
Return(S, ph, ret) ==
    /\ CommitTo(S, ph)
    /\ gret' = IF S.err # "none" THEN gret ELSE ret
    /\ UNCHANGED <<merr, symtabVars, lexerVars, callerVars>>

\* a lowering step ends in the state S; the frames become fr unless it raised
Step(S, fr) ==
    /\ Commit(S)
    /\ frames' = IF S.err # "none" THEN frames ELSE fr

Generating == phase = "generate" /\ gerr = "none" /\ frames # <<>>
Top == frames[Len(frames)]
HasNext == Generating /\ Top.i <= Len(Top.body)
NextStmt == Top.body[Top.i]
BodyDone(h) == Generating /\ Top.h = h /\ Top.i > Len(Top.body)
Advanced == [frames EXCEPT ![Len(frames)].i = @ + 1]
Push(fr) == Append(Advanced, fr)
Pop == SubSeq(frames, 1, Len(frames) - 1)

\* the first pass of generate (lines 61-69)
UserDefinedMain(tree) ==
    \E i \in DOMAIN tree.body :
        tree.body[i].k = "function_declaration" /\ tree.body[i].name = "main"

\* generate, lines 55-81
GenerateBegin ==
    /\ phase = "generate" /\ gerr = "none" /\ frames = <<>>
    /\ IF ast.k = "None"
       THEN /\ phase' = "done"
            /\ gret' = "// No AST to generate code for"
            /\ UNCHANGED <<frames, module, builder, function, variables, functions,
                           fmt_globals, diags, gerr, src, lexer_lexdata, lexer_lexpos, symbol_table,
                           ast, perr, lexer_lineno, merr, symtabVars, lexerVars, callerVars>>
       ELSE LET udm == UserDefinedMain(ast)
                S1 == IrFunction(GS, "main", <<>>)
                f == Len(S1.module.funcs)
                S2 == AppendBasicBlock([S1 EXCEPT !.function = FunctionRef(f)], "entry")
                S == IF udm THEN GS
                     ELSE IF S1.err # "none" THEN S1
                     ELSE [S2 EXCEPT !.builder = IRBuilder(f, 1)]
            IN  Step(S,
                     <<[h |-> "generate", body |-> ast.body, i |-> 1,
                                     user_defined_main |-> udm]>>)

\* a None in a list of statements is passed over (if stmt is not None)
GenerateNone ==
    /\ HasNext /\ NextStmt.k = "None"
    /\ frames' = Advanced
    /\ UNCHANGED <<module, builder, function, variables, functions, fmt_globals,
                   diags, gerr, phase, src, lexer_lexdata, lexer_lexpos, symbol_table, ast, perr, lexer_lineno, otherVars>>

\* _generate_statement dispatches on the kind of the statement (lines 105-133)
GenerateDeclaration ==
    /\ HasNext /\ NextStmt.k = "declaration"
    /\ Step(_generate_declaration(NextStmt, GS), Advanced)

GenerateDeclarationInit ==
    /\ HasNext /\ NextStmt.k = "declaration_init"
    /\ Step(_generate_declaration_init(NextStmt, GS), Advanced)

GenerateAssignment ==
    /\ HasNext /\ NextStmt.k = "assignment"
    /\ Step(_generate_assignment(NextStmt, GS), Advanced)

GenerateFunctionCall ==
    /\ HasNext /\ NextStmt.k = "function_call"
    /\ Step(_generate_function_call(NextStmt, GS).S, Advanced)

GenerateReturn ==
    /\ HasNext /\ NextStmt.k = "return"
    /\ Step(_generate_return(NextStmt, GS), Advanced)

GeneratePrint ==
    /\ HasNext /\ NextStmt.k = "print"
    /\ Step(_generate_print(NextStmt, GS), Advanced)

GenerateRead ==
    /\ HasNext /\ NextStmt.k = "read"
    /\ Step(_generate_read(NextStmt, GS), Advanced)

\* _generate_conditional up to the loop over then_body, for 'if' (lines 500-521)
IfBegin ==
    /\ HasNext /\ NextStmt.k = "if"
    /\ LET then_block == NextBlock(GS)
           end_block == then_block + 1
           S1 == AppendBasicBlock(AppendBasicBlock(GS, "then"), "endif")
           V == _generate_expression(NextStmt.c, S1)
           S2 == SetTerminator(CoerceCondition(V), CBranch(ConditionType(V), then_block, end_block))
           S == PositionAtEnd(S2, then_block)
       IN  Step(S,
                Push([h |-> "if", body |-> NextStmt.body, i |-> 1,
                                   then_block |-> then_block, end_block |-> end_block]))

\* the arm's final block branches to the end block unless it is terminated
EndArm(S, end_block, next_block) ==
    LET S1 == IF S.builder.k = "None" THEN Raise(S, "AttributeError")
              ELSE IF ~IsTerminated(S) THEN SetTerminator(S, Br(end_block))
              ELSE S
    IN  PositionAtEnd(S1, next_block)

\* _generate_conditional after the loop over then_body, for 'if' (lines 525-530)
IfEnd ==
    /\ BodyDone("if")
    /\ LET S == EndArm(GS, Top.end_block, Top.end_block)
       IN  Step(S, Pop)

\* _generate_conditional up to the loop over then_body, for 'if_else' (lines 532-556)
IfElseBegin ==
    /\ HasNext /\ NextStmt.k = "if_else"
    /\ LET then_block == NextBlock(GS)
           else_block == then_block + 1
           end_block == then_block + 2
           S1 == AppendBasicBlock(AppendBasicBlock(AppendBasicBlock(GS, "then"), "else"),
                                  "endif")
           V == _generate_expression(NextStmt.c, S1)
           S2 == SetTerminator(CoerceCondition(V), CBranch(ConditionType(V), then_block, else_block))
           S == PositionAtEnd(S2, then_block)
       IN  Step(S,
                Push([h |-> "if_else", body |-> NextStmt.body, i |-> 1,
                                   arm |-> "then", else_body |-> NextStmt.ebody,
                                   then_block |-> then_block, else_block |-> else_block,
                                   end_block |-> end_block]))

\* between the two loops of 'if_else' (lines 558-564)
IfElseThenEnd ==
    /\ BodyDone("if_else") /\ Top.arm = "then"
    /\ LET S == EndArm(GS, Top.end_block, Top.else_block)
       IN  Step(S,
                [frames EXCEPT ![Len(frames)] =
                                [@ EXCEPT !.arm = "else", !.body = Top.else_body, !.i = 1]])

\* after the loop over else_body (lines 568-573)
IfElseElseEnd ==
    /\ BodyDone("if_else") /\ Top.arm = "else"
    /\ LET S == EndArm(GS, Top.end_block, Top.end_block)
       IN  Step(S, Pop)

\* _generate_while_loop up to the loop over body (lines 577-602)
WhileBegin ==
    /\ HasNext /\ NextStmt.k = "while_loop"
    /\ LET cond_block == NextBlock(GS)
           body_block == cond_block + 1
           end_block == cond_block + 2
           S1 == AppendBasicBlock(AppendBasicBlock(AppendBasicBlock(GS, "while_cond"),
                                                   "while_body"), "while_end")
           S2 == PositionAtEnd(SetTerminator(S1, Br(cond_block)), cond_block)
           V == _generate_expression(NextStmt.c, S2)
           S3 == SetTerminator(CoerceCondition(V), CBranch(ConditionType(V), body_block, end_block))
           S == PositionAtEnd(S3, body_block)
       IN  Step(S,
                Push([h |-> "while_loop", body |-> NextStmt.body, i |-> 1,
                                   cond_block |-> cond_block, body_block |-> body_block,
                                   end_block |-> end_block]))

\* the jump back that ends the body of a while loop (line 607)
WhileBackEdge(S, cond_block) == SetTerminator(S, Br(cond_block))

\* _generate_while_loop after the loop over body (lines 606-610)
WhileEnd ==
    /\ BodyDone("while_loop")
    /\ LET S == PositionAtEnd(WhileBackEdge(GS, Top.cond_block), Top.end_block)
       IN  Step(S, Pop)

\* _generate_for_loop from the blocks to the loop over body (lines 621-646);
\* S0 is the state the initialization left
ForHead(stmt, S0) ==
    LET cond_block == NextBlock(S0)
        body_block == cond_block + 1
        incr_block == cond_block + 2
        end_block == cond_block + 3
        S1 == AppendBasicBlock(AppendBasicBlock(AppendBasicBlock(AppendBasicBlock(S0,
                 "for_cond"), "for_body"), "for_incr"), "for_end")
        S2 == PositionAtEnd(SetTerminator(S1, Br(cond_block)), cond_block)
        V == _generate_expression(stmt.c, S2)
        S3 == SetTerminator(CoerceCondition(V), CBranch(ConditionType(V), body_block, end_block))
    IN  Step(PositionAtEnd(S3, body_block),
             Push([h |-> "for_loop", body |-> stmt.body, i |-> 1,
                   increment |-> stmt.incr,
                   cond_block |-> cond_block, body_block |-> body_block,
                   incr_block |-> incr_block, end_block |-> end_block]))

\* _generate_for_loop up to the loop over body (lines 614-646)
ForBegin ==
    /\ HasNext /\ NextStmt.k = "for_loop"
    /\ ForHead(NextStmt, GenerateSimple(NextStmt.init, GS))

\* _generate_for_loop after the loop over body (lines 648-660)
ForEnd ==
    /\ BodyDone("for_loop")
    /\ LET S1 == PositionAtEnd(SetTerminator(GS, Br(Top.incr_block)), Top.incr_block)
           S2 == IF S1.err # "none" THEN S1 ELSE GenerateSimple(Top.increment, S1)
           S == PositionAtEnd(SetTerminator(S2, Br(Top.cond_block)), Top.end_block)
       IN  Step(S, Pop)

RECURSIVE StoreParams(_, _, _)
\* a slot for each parameter, the argument stored into it (lines 436-440)
StoreParams(S, params, n) ==
    IF n = 0 THEN S
    ELSE LET S1 == StoreParams(S, params, n - 1)
             lty == _get_llvm_type(params[n].ty)
             S2 == Alloca(S1, lty, params[n].name)
         IN  IF S2.err # "none" THEN S2
             ELSE LET ptr == NewSlot(S1, lty, params[n].name)
                  IN  SetVariable(Store(S2, lty, ptr), params[n].name, ptr, params[n].ty)

\* _generate_function_declaration up to the loop over body (lines 403-445)
FunctionDeclarationBegin ==
    /\ HasNext /\ NextStmt.k = "function_declaration"
    /\ LET params == NextStmt.params
           S1 == IrFunction(Typed(GS, [i \in DOMAIN params |-> params[i].ty]), NextStmt.name,
                            [i \in DOMAIN params |-> _get_llvm_type(params[i].ty)])
           f == Len(S1.module.funcs)
           S2 == AppendBasicBlock([S1 EXCEPT !.function = FunctionRef(f)], "entry")
           S3 == [S2 EXCEPT !.builder = IRBuilder(f, 1), !.variables = EmptyDict]
           S == IF S1.err # "none" THEN S1 ELSE StoreParams(S3, params, Len(params))
       IN  Step(S,
                Push([h |-> "function_declaration", body |-> NextStmt.body,
                                   i |-> 1, func_name |-> NextStmt.name, func |-> f,
                                   params |-> params, old_builder |-> builder,
                                   old_function |-> function, old_variables |-> variables]))

\* the return 0 that ends a body left open (lines 87-88 and 448-449)
ImplicitReturn(S) ==
    IF S.builder.k = "None" THEN Raise(S, "AttributeError")
    ELSE IF ~IsTerminated(S) THEN SetTerminator(S, Ret)
    ELSE S

\* the builder state is put back, but for the bindings (lines 458-459)
RestoredButVariables(S, fr) ==
    [S EXCEPT !.builder = fr.old_builder, !.function = fr.old_function]

\* the builder state saved in the frame fr is put back (lines 458-461)
Restored(S, fr) ==
    [S EXCEPT !.builder = fr.old_builder,
              !.function = fr.old_function,
              !.variables = fr.old_variables]

\* _generate_function_declaration after the loop over body (lines 447-461)
FunctionDeclarationEnd ==
    /\ BodyDone("function_declaration")
    /\ LET S1 == ImplicitReturn(GS)
           S == IF S1.err # "none" THEN S1
                ELSE [S1 EXCEPT !.functions = Put(@, Top.func_name,
                                      [func |-> Top.func, return_type |-> "int",
                                       param_types |-> [i \in DOMAIN Top.params |-> Top.params[i].ty]])]
       IN  Step(IF S.err # "none" THEN S ELSE Restored(S, Top), Pop)

\* LLVM's assembler (llvm.parse_assembly) on the text of the module.  The
\* text of an instruction shows the type of its first operand and the names
\* or literals of the others; the assembler wants every operand of the type
\* the instruction asks for, and every block to end with a terminator.
IntegerTypes == {"i1", "i32"}
\* a second operand where a value of type typ is due
OperandFits(typ, ref) ==
    \/ ref = typ
    \/ ref = "integer" /\ typ \in IntegerTypes
    \/ ref = "floating" /\ typ = "float"
Accepted(ins) ==
    CASE ins.op \in {"add", "sub", "mul", "sdiv", "srem", "and", "or", "not", "neg"} ->
            ins.a[1] \in IntegerTypes
      [] ins.op \in {"fadd", "fsub", "fmul", "fdiv", "frem", "fneg"} -> ins.a[1] = "float"
      [] ins.op = "icmp" -> ins.a[2] \in IntegerTypes \cup {"i8*"} /\ OperandFits(ins.a[2], ins.a[3])
      [] ins.op = "fcmp" -> ins.a[2] = "float" /\ OperandFits(ins.a[2], ins.a[3])
      [] ins.op = "sitofp" -> ins.a[1] \in IntegerTypes
      [] ins.op = "fptosi" -> ins.a[1] = "float"
      [] ins.op = "zext" -> ins.a[1] = "i1"
      [] ins.op = "ret" -> ins.a[1] = "i32"
      [] ins.op = "cbranch" -> ins.a[1] = "i1"
      [] OTHER -> TRUE
\* a block of the text: what follows a terminator inside a block is a block
\* of its own to the assembler, which has to end with a terminator as well
BlockAccepted(blk) ==
    /\ blk.instrs # <<>>
    /\ blk.instrs[Len(blk.instrs)].op \in TerminatorOps
    /\ \A i \in DOMAIN blk.instrs : Accepted(blk.instrs[i])
\* a call has as many arguments as the function has parameters; printf and
\* scanf, declared with var_arg=True (lines 35, 39), may be given more
VarArg(f) == f \in {PrintfIndex, ScanfIndex}
CallAccepted(m, ins) ==
    ins.op = "call" =>
        \/ ins.n = Len(m.funcs[ins.t[1]].params)
        \/ VarArg(ins.t[1]) /\ ins.n > Len(m.funcs[ins.t[1]].params)
parse_assembly(m) ==
    \A f \in DOMAIN m.funcs : \A b \in DOMAIN m.funcs[f].blocks :
        /\ BlockAccepted(m.funcs[f].blocks[b])
        /\ \A i \in DOMAIN m.funcs[f].blocks[b].instrs :
               CallAccepted(m, m.funcs[f].blocks[b].instrs[i])

\* LLVM's verifier (ModuleRef.verify) on a module the assembler accepted: a
\* slot is used only where its alloca has been executed on every path from
\* the entry.  (A slot is used in the function that made it: the bindings are
\* replaced on entering a function declaration and put back on leaving it.)
Targets(blk) ==
    IF blk.instrs = <<>> THEN {}
    ELSE { blk.instrs[Len(blk.instrs)].t[i] : i \in DOMAIN blk.instrs[Len(blk.instrs)].t }
RECURSIVE Closure(_, _, _)
\* the blocks reached from those of set without entering the block avoid
Closure(blocks, set, avoid) ==
    LET next == set \cup (UNION { Targets(blocks[b]) : b \in set } \ {avoid})
    IN  IF next = set THEN set ELSE Closure(blocks, next, avoid)
Reachable(blocks, avoid) == IF avoid = 1 THEN {} ELSE Closure(blocks, {1}, avoid)
SlotUses(blk) ==
    { blk.instrs[i].t[1] : i \in { j \in DOMAIN blk.instrs :
                                     blk.instrs[j].op \in {"load", "store"} /\ blk.instrs[j].t # <<>> } }
SlotBlock(blocks, id) ==
    CHOOSE b \in DOMAIN blocks :
        \E i \in DOMAIN blocks[b].instrs :
            blocks[b].instrs[i].op = "alloca" /\ blocks[b].instrs[i].t = << id >>
Dominates(blocks, d, u) == d = u \/ u \notin Reachable(blocks, d)
FunctionVerifies(blocks) ==
    \A u \in Reachable(blocks, 0) : \A id \in SlotUses(blocks[u]) :
        Dominates(blocks, SlotBlock(blocks, id), u)
verify(m) ==
    \A f \in DOMAIN m.funcs : m.funcs[f].blocks = <<>> \/ FunctionVerifies(m.funcs[f].blocks)

\* the message printed when parse_assembly raises (line 95)
VerificationFailed(S) ==
    [S EXCEPT !.diags = Append(@, [kind |-> "VerificationFailed", what |-> "LLVM IR"])]

\* generate after the loop over the statements (lines 86-96): the implicit
\* return, then the text of the module is given to LLVM's assembler; when
\* that raises, the message is printed and the text alone is returned
GenerateEnd ==
    /\ BodyDone("generate")
    /\ LET S == IF Top.user_defined_main THEN GS ELSE ImplicitReturn(GS)
       IN  /\ IF S.err # "none" \/ parse_assembly(S.module)
              THEN Return(S, "optimize", "none")
              ELSE Return(VerificationFailed(S), "done", "llvm_ir")
           /\ frames' = IF S.err # "none" THEN frames ELSE Pop

\* optimize_ir (lines 749-774): the text is assembled again and verified;
\* verify raises RuntimeError for a module that is not well formed, else the
\* passes run and the text of the optimized module is returned
optimize_ir(S) == IF verify(S.module) THEN S ELSE Raise(S, "RuntimeError")

\* generate, lines 99-102: the call of optimize_ir, outside any try, and the
\* return of the two texts
OptimizeIr ==
    /\ phase = "optimize"
    /\ Return(optimize_ir(GS), "done", "(llvm_ir, optimized_ir)")
    /\ UNCHANGED frames

\* main.py, lines 50-66: what generate returned is unpacked into two names;
\* a text alone is a str of more than two characters
MainUnpack ==
    /\ phase = "done" /\ gerr = "none" /\ gret # "none"
    /\ phase' = "exit"
    /\ merr' = IF gret = "(llvm_ir, optimized_ir)" THEN "none" ELSE "ValueError"
    /\ UNCHANGED <<src, lexer_lexdata, lexer_lexpos, symbol_table, diags, ast, perr,
                   lexer_lineno, gret, symtabVars, lexerVars, callerVars>>
    /\ UNCHANGED genVars

\* the types of the language; the value converted is one of the LLVM type of
\* its static type, as every value the lowering of an expression returns is
StaticTypes == {"int", "float", "bool", "string"}
ConvertCalls ==
    { [at |-> "call", value |-> _get_llvm_type(f), from_type |-> f, to_type |-> t]
      : f \in StaticTypes, t \in StaticTypes }

\* _convert_type called where generate has set up its function (or has not,
\* the program having a main of its own)
ConvertType ==
    /\ Generating /\ Top.h = "generate" /\ Top.i = 1
    /\ conv.at = "call"
    /\ LET V == _convert_type(GS, conv.value, conv.from_type, conv.to_type)
       IN  /\ conv' = [at |-> IF V.S.err # "none" THEN "raise" ELSE "return",
                       value |-> conv.value, from_type |-> conv.from_type,
                       to_type |-> conv.to_type, result |-> V.lty]
           /\ module' = V.S.module
           /\ builder' = V.S.builder
           /\ diags' = V.S.diags
           /\ gerr' = V.S.err
    /\ UNCHANGED <<src, phase, lexer_lexdata, lexer_lexpos, symbol_table, ast, perr, lexer_lineno,
                   function, variables, functions, fmt_globals, frames,
                   symtabVars, lexerVars, earlier, hashseed, mainVars>>

ConvertInit ==
    /\ src \in { <<>>, << FDecl("main", <<>>, <<>>) >> }
    /\ phase = "start"
    /\ CompilerNew
    /\ SymbolTableNew
    /\ LexerNew
    /\ earlier = None
    /\ gret = "none"
    /\ merr = "none"
    /\ hashseed = {}
    /\ conv \in ConvertCalls

ConvertNext ==
    \/ ParseBegin \/ ParseReturn
    \/ GenerateBegin
    \/ ConvertType

\* _convert_type applied to every value and pair of types
ConvertSpec == ConvertInit /\ [][ConvertNext]_vars

RECURSIVE Scan(_, _, _)
\* the loop of Lexer.test (lines 144-149): the token found is appended until
\* lexer.token() returns None, or raises
Scan(data, found, tokens) ==
    IF found.tok = None
    THEN [pos |-> found.pos, line |-> found.line, toks |-> tokens, diags |-> found.diags,
          err |-> found.err]
    ELSE Scan(data, Seek(data, found.pos, found.line, found.diags), Append(tokens, found.tok))

Analysed(L) ==
    /\ lexpos' = L.pos
    /\ lineno' = L.line
    /\ toks' = L.toks
    /\ lexdiags' = L.diags
    /\ lexphase' = IF L.err = "none" THEN "returned" ELSE "raised"

\* Lexer.test(data) on a new Lexer, from the call to the return
Test(data) ==
    /\ lexdata' = data
    /\ \E L \in { Scan(data, Seek(data, 1, 1, lexdiags), <<>>) } : Analysed(L)

\* main.py, lines 27-35: Lexer().test(source_code) from the call to the
\* return, or to the exception, which ends main
LexicalAnalysis ==
    /\ phase = "lex" /\ lexphase = "idle"
    /\ \E data \in { Render(src) } : Test(data)
    /\ phase' = IF lexphase' = "raised" THEN "exit" ELSE "start"
    /\ merr' = IF lexphase' = "raised" THEN "ValueError" ELSE merr
    /\ UNCHANGED <<src, lexer_lexdata, lexer_lexpos, symbol_table, diags, ast, perr,
                   lexer_lineno, symtabVars, callerVars, gret>>
    /\ UNCHANGED genVars

Next ==
    \/ LexicalAnalysis
    \/ ParseBegin \/ ParseReturn
    \/ GenerateBegin \/ GenerateNone
    \/ GenerateDeclaration \/ GenerateDeclarationInit \/ GenerateAssignment
    \/ GenerateFunctionCall \/ GenerateReturn \/ GeneratePrint \/ GenerateRead
    \/ IfBegin \/ IfEnd \/ IfElseBegin \/ IfElseThenEnd \/ IfElseElseEnd
    \/ WhileBegin \/ WhileEnd \/ ForBegin \/ ForEnd
    \/ FunctionDeclarationBegin \/ FunctionDeclarationEnd
    \/ GenerateEnd \/ OptimizeIr
    \/ MainUnpack

Spec == Init /\ [][Next]_vars

-----------------------------------------------------------------------------
(* What the statements below speak of.                                     *)

\* generate was called with a tree, and has ended (returned or raised)
Generated == phase \in {"done", "exit"} /\ ast.k # "None"
\* generate returned the module
Returned == Generated /\ gerr = "none"

RECURSIVE ExprDeclared(_, _)
\* every identifier the expression refers to is in D
ExprDeclared(e, D) ==
    IF e.k = "IDENTIFIER" THEN e.s \in D
    ELSE IF e.k \in {"paren", "not"} THEN ExprDeclared(e.e, D)
    ELSE IF e.k \in {"term", "arith", "cmp", "logic"}
    THEN ExprDeclared(e.l, D) /\ ExprDeclared(e.r, D)
    ELSE IF e.k = "call"
    THEN e.name \in D /\ \A i \in DOMAIN e.args : ExprDeclared(e.args[i], D)
    ELSE TRUE

RECURSIVE ScanStmt(_, _)
RECURSIVE ScanBody(_, _)
\* R.D: the names declared so far in the function being read; R.ok: every
\* reference so far was to one of them
ScanBody(body, R) ==
    IF body = <<>> THEN R
    ELSE ScanStmt(body[Len(body)], ScanBody(SubSeq(body, 1, Len(body) - 1), R))

ScanStmt(s, R) ==
    IF s.k = "decl" THEN [R EXCEPT !.D = @ \cup {s.name}]
    ELSE IF s.k = "decl_init"
    THEN [R EXCEPT !.ok = @ /\ ExprDeclared(s.e, R.D), !.D = @ \cup {s.name}]
    ELSE IF s.k = "assign"
    THEN [R EXCEPT !.ok = @ /\ s.name \in R.D /\ ExprDeclared(s.e, R.D)]
    ELSE IF s.k = "fcall_stmt"
    THEN [R EXCEPT !.ok = @ /\ s.name \in R.F
                        /\ \A i \in DOMAIN s.args : ExprDeclared(s.args[i], R.D)]
    ELSE IF s.k = "fdecl"
    THEN LET B == ScanBody(s.body, [ok |-> R.ok, F |-> R.F \cup {s.name},
                                    D |-> { s.params[i].name : i \in DOMAIN s.params }])
         IN  [ok |-> B.ok, F |-> B.F, D |-> R.D]
    ELSE IF s.k \in {"if", "while"}
    THEN ScanBody(s.body, [R EXCEPT !.ok = @ /\ ExprDeclared(s.c, R.D)])
    ELSE IF s.k = "if_else"
    THEN ScanBody(s.ebody, ScanBody(s.body, [R EXCEPT !.ok = @ /\ ExprDeclared(s.c, R.D)]))
    ELSE IF s.k = "for"
    THEN LET I == ScanStmt(s.init, R)
             H == [I EXCEPT !.ok = @ /\ ExprDeclared(s.c, I.D) /\ ExprDeclared(s.incr.e, I.D)
                                     /\ (s.incr.k = "incr_assign" => s.incr.name \in I.D)]
         IN  ScanBody(s.body, H)
    ELSE IF s.k \in {"return", "print"}
    THEN [R EXCEPT !.ok = @ /\ ExprDeclared(s.e, R.D)]
    ELSE R

\* what the parser reported
ParserDiags == SelectSeq(diags, LAMBDA d : d.kind \notin {"Warning", "VerificationFailed"})

\* the program parses with nothing reported, and refers only to names declared
\* before, in the same function
ParsesAndRefersToDeclared ==
    /\ perr = "none"
    /\ ParserDiags = <<>>
    /\ ScanBody(src, [ok |-> TRUE, F |-> {}, D |-> {}]).ok

IsTerminator(ins) == ins.op \in TerminatorOps
DefinedFunctions == { f \in DOMAIN module.funcs : module.funcs[f].blocks # <<>> }
BlocksOf(f) == module.funcs[f].blocks
\* exactly one terminator, and it is the last instruction
WellTerminated(b) == { i \in DOMAIN b.instrs : IsTerminator(b.instrs[i]) } = { Len(b.instrs) }

-----------------------------------------------------------------------------
(* C1: in the module generate produces for a program that parses and       *)
(* refers only to declared identifiers, every basic block of every defined *)
(* function holds exactly one terminator, as its last instruction.         *)
C1_EveryBlockHasOneFinalTerminator ==
    (Returned /\ ParsesAndRefersToDeclared) =>
        \A f \in DefinedFunctions :
            \A b \in DOMAIN BlocksOf(f) : WellTerminated(BlocksOf(f)[b])

-----------------------------------------------------------------------------
(* C2: when no top-level function is named main, generate creates one      *)
(* parameterless function main; the top-level statements are lowered one   *)
(* after the other, in source order, into its blocks; and the implicit     *)
(* return 0 is appended exactly when the block holding the cursor after    *)
(* the last top-level statement is not terminated.                         *)

NoUserMain == ast.k = "program" /\ ~UserDefinedMain(ast)
\* generate is past the creation of its entry point
Entered == frames # <<>> \/ phase \in {"optimize", "done", "exit"}
MainFunctions == { f \in DOMAIN module.funcs : module.funcs[f].name = "main" }
InFunctionDeclaration == \E i \in DOMAIN frames : frames[i].h = "function_declaration"
InFunctionDeclarationNext == \E i \in DOMAIN frames' : frames'[i].h = "function_declaration"

IsPrefix(s, t) == Len(s) <= Len(t) /\ SubSeq(t, 1, Len(s)) = s
\* blocks are only added, and instructions only appended to a block
Extends(old, new) ==
    /\ Len(old) <= Len(new)
    /\ \A b \in DOMAIN old : new[b].name = old[b].name /\ IsPrefix(old[b].instrs, new[b].instrs)
HasTerminator(b) == \E i \in DOMAIN b.instrs : IsTerminator(b.instrs[i])

C2_OneMain ==
    (NoUserMain /\ Entered) =>
        /\ \E m \in MainFunctions : MainFunctions = {m}
        /\ \A m \in MainFunctions :
              /\ module.funcs[m].params = <<>>
              /\ ~InFunctionDeclaration =>
                    /\ function = FunctionRef(m)
                    /\ builder.k # "None" /\ builder.fn = m

\* a step of generate outside any function declaration of the program
C2_LowersIntoMain ==
    (phase = "generate" /\ NoUserMain /\ frames # <<>>
       /\ ~InFunctionDeclaration /\ ~InFunctionDeclarationNext) =>
        /\ Len(module'.funcs) = Len(module.funcs)
        /\ \A f \in DOMAIN module.funcs :
              IF f \in MainFunctions
              THEN Extends(module.funcs[f].blocks, module'.funcs[f].blocks)
              ELSE module'.funcs[f] = module.funcs[f]

\* the top-level statements are taken one by one, from the first to the last,
\* and the builder refuses none of the terminators their lowering sets
C2_InSourceOrder ==
    (phase = "generate" /\ NoUserMain /\ frames # <<>>) =>
        /\ frames[1].body = ast.body
        /\ gerr' # "AssertionError"
        /\ (gerr' = "none" /\ frames' # <<>>) =>
              frames'[1].i = IF Len(frames) = 1 THEN frames[1].i + 1 ELSE frames[1].i
        /\ frames' = <<>> => Len(frames) = 1 /\ frames[1].i = Len(ast.body) + 1

\* the end of generate
C2_ImplicitReturn ==
    (phase = "generate" /\ NoUserMain /\ Len(frames) = 1 /\ frames[1].i > Len(ast.body)) =>
        LET f == builder.fn
            b == builder.blk
            old == module.funcs[f].blocks[b]
        IN  /\ phase' \in {"optimize", "done"} /\ gerr' = "none" /\ frames' = <<>>
            /\ builder' = builder
            /\ module' = IF HasTerminator(old) THEN module
                         ELSE [module EXCEPT !.funcs[f].blocks[b] =
                                  [name |-> old.name, instrs |-> Append(old.instrs, Ret),
                                   terminated |-> TRUE]]

C2_SynthesizedMain ==
    /\ []C2_OneMain
    /\ [][C2_LowersIntoMain /\ C2_InSourceOrder /\ C2_ImplicitReturn]_vars

-----------------------------------------------------------------------------
(* The shape of the code of a compound statement, as a step finds and      *)
(* leaves it.                                                              *)

HasCursor == function.k # "None" /\ builder.k # "None"
Blocks == module.funcs[function.i].blocks
BlocksNext == module'.funcs[function.i].blocks
Cursor == builder.blk
Names(blocks, from) == [j \in 1..(Len(blocks) - from) |-> blocks[from + j].name]
\* the instructions a step appended to block b
Added(b) == SubSeq(BlocksNext[b].instrs, Len(Blocks[b].instrs) + 1, Len(BlocksNext[b].instrs))
\* the blocks a block's terminators lead to
Successors(blk) ==
    UNION { { blk.instrs[i].t[j] : j \in DOMAIN blk.instrs[i].t }
            : i \in { k \in DOMAIN blk.instrs : IsTerminator(blk.instrs[k]) } }
Predecessors(blocks, b) == { p \in DOMAIN blocks : b \in Successors(blocks[p]) }
AtStatement(kind) == HasNext /\ NextStmt.k = kind /\ HasCursor
AfterBody(h) == BodyDone(h) /\ HasCursor

-----------------------------------------------------------------------------
(* C3: lowering a while statement adds the blocks cond, body and end; the  *)
(* preceding block branches to cond; cond branches to body when the        *)
(* condition is true and to end when false; the block in which the body's  *)
(* lowering finishes ends with a branch back to cond and has no edge to    *)
(* end; the cursor is left at end.                                         *)

\* the step that reaches a while statement in a block still open
C3_WhileHead ==
    (AtStatement("while_loop") /\ ~HasTerminator(Blocks[Cursor])) =>
        LET n == Len(Blocks)
        IN  /\ gerr' = "none"
            /\ Len(BlocksNext) = n + 3
            /\ Names(BlocksNext, n) = <<"while_cond", "while_body", "while_end">>
            /\ Last(BlocksNext[Cursor].instrs) = Br(n + 1)
            /\ Last(BlocksNext[n + 1].instrs) = CBr(n + 2, n + 3)
            /\ builder'.blk = n + 2

\* the step that follows the lowering of the body
C3_WhileBackEdge ==
    AfterBody("while_loop") =>
        /\ gerr' = "none"
        /\ Len(BlocksNext) = Len(Blocks)
        /\ Last(BlocksNext[Cursor].instrs) = Br(Top.cond_block)
        /\ Top.end_block \notin Successors(BlocksNext[Cursor])
        /\ builder'.blk = Top.end_block

C3_WhileLowering == [][C3_WhileHead /\ C3_WhileBackEdge]_vars

-----------------------------------------------------------------------------
(* C4: lowering an if-else adds exactly three blocks (then, else, end) to  *)
(* the current function, and a plain if adds then and end; the condition   *)
(* branches to then when true and to else (end for a plain if) when false; *)
(* the block in which an arm's lowering finishes receives a branch to end  *)
(* exactly when it is not terminated, so no arm block receives two         *)
(* terminators.                                                            *)

C4_IfHead ==
    (AtStatement("if") \/ AtStatement("if_else")) =>
        LET n == Len(Blocks)
        IN  /\ gerr' = "none"
            /\ Names(BlocksNext, n) = IF NextStmt.k = "if" THEN <<"then", "endif">>
                                      ELSE <<"then", "else", "endif">>
            /\ Last(BlocksNext[Cursor].instrs) = CBr(n + 1, n + 2)
            /\ builder'.blk = n + 1

C4_ArmEnd ==
    (AfterBody("if") \/ AfterBody("if_else")) =>
        /\ gerr' = "none"
        /\ Len(BlocksNext) = Len(Blocks)
        /\ Added(Cursor) = IF HasTerminator(Blocks[Cursor]) THEN <<>> ELSE << Br(Top.end_block) >>
        /\ builder'.blk = IF Top.h = "if_else" /\ Top.arm = "then" THEN Top.else_block
                          ELSE Top.end_block

C4_ConditionalLowering == [][C4_IfHead /\ C4_ArmEnd]_vars

-----------------------------------------------------------------------------
(* C5: lowering a for statement lowers the init statement exactly once, in *)
(* the block that precedes cond; the increment, an assignment or a bare    *)
(* expression, is lowered in its own incr block; incr is entered only from *)
(* the block where the body's lowering finishes, and branches back to      *)
(* cond; cond branches to body or end.                                     *)

\* the instructions that are not terminators
Plain(instrs) == SelectSeq(instrs, LAMBDA ins : ~IsTerminator(ins))

\* the step that reaches a for statement in a block still open
C5_ForHead ==
    (AtStatement("for_loop") /\ ~HasTerminator(Blocks[Cursor])) =>
        LET n == Len(Blocks)
        IN  /\ gerr' = "none"
            /\ Names(BlocksNext, n) = <<"for_cond", "for_body", "for_incr", "for_end">>
            /\ Plain(Added(Cursor)) =
                  << [op |-> "alloca", a |-> <<NextStmt.init.name, "i32">>,
                      t |-> <<module.funcs[function.i].slots + 1>>],
                     [op |-> "store", a |-> <<NextStmt.init.name, "i32">>,
                      t |-> <<module.funcs[function.i].slots + 1>>] >>
            /\ Last(BlocksNext[Cursor].instrs) = Br(n + 1)
            /\ \A b \in (n + 1)..(n + 4) :
                  \A i \in DOMAIN BlocksNext[b].instrs : BlocksNext[b].instrs[i].op # "alloca"
            /\ Last(BlocksNext[n + 1].instrs) = CBr(n + 2, n + 4)
            /\ builder'.blk = n + 2

\* the step that follows the lowering of a body whose last block is still open
C5_ForIncrement ==
    (AfterBody("for_loop") /\ ~HasTerminator(Blocks[Cursor])) =>
        /\ gerr' = "none"
        /\ Len(BlocksNext) = Len(Blocks)
        /\ Added(Cursor) = << Br(Top.incr_block) >>
        /\ Predecessors(BlocksNext, Top.incr_block) = { Cursor }
        /\ Plain(BlocksNext[Top.incr_block].instrs) # <<>>
        /\ Last(BlocksNext[Top.incr_block].instrs) = Br(Top.cond_block)
        /\ builder'.blk = Top.end_block

C5_ForLowering == [][C5_ForHead /\ C5_ForIncrement]_vars


-----------------------------------------------------------------------------
(* What the statements on the analyzer speak of.                           *)

\* parse has returned
ParseEnded == phase \in {"generate", "optimize", "done", "exit"}

SimpleKinds == {"decl", "decl_init", "assign", "print", "return"}
\* a program of top-level statements only: one scope, one function
FlatProgram == \A i \in DOMAIN src : src[i].k \in SimpleKinds
Declarations(name) ==
    { i \in DOMAIN src : src[i].k \in {"decl", "decl_init"} /\ src[i].name = name }
DeclaredNames == { src[i].name : i \in { j \in DOMAIN src : src[j].k \in {"decl", "decl_init"} } }
RedeclaredNames == { n \in DeclaredNames : Cardinality(Declarations(n)) > 1 }
FirstDeclaration(name) ==
    src[CHOOSE i \in Declarations(name) : \A j \in Declarations(name) : i <= j]
DuplicateReports(name) ==
    { i \in DOMAIN diags : diags[i].kind = "DuplicateDeclaration" /\ diags[i].what = name }
\* the stack slots allocated under a name, in every function of the module
SlotsOf(name) ==
    UNION { UNION { { <<f, b, i>> : i \in { j \in DOMAIN BlocksOf(f)[b].instrs :
                                               /\ BlocksOf(f)[b].instrs[j].op = "alloca"
                                               /\ BlocksOf(f)[b].instrs[j].a[1] = name } }
                    : b \in DOMAIN BlocksOf(f) }
            : f \in DOMAIN module.funcs }
SlotType(p) == module.funcs[p[1]].blocks[p[2]].instrs[p[3]].a[2]

-----------------------------------------------------------------------------
(* C6: a name declared again in the same scope is reported once per        *)
(* redeclaration and nothing else changes: the symbol table keeps the type *)
(* of the first declaration, and in the module generate returns the name   *)
(* has exactly one stack slot, of the first declaration's type, to which   *)
(* the name is still bound.                                                *)
C6_DuplicateDeclaration ==
    \A n \in RedeclaredNames :
        /\ (ParseEnded /\ FlatProgram) =>
              /\ Cardinality(DuplicateReports(n)) = Cardinality(Declarations(n)) - 1
              /\ symbol_table[n].type = FirstDeclaration(n).ty
        /\ (Returned /\ FlatProgram) =>
              /\ Cardinality(SlotsOf(n)) = 1
              /\ \A p \in SlotsOf(n) : SlotType(p) = _get_llvm_type(FirstDeclaration(n).ty)
              /\ n \in DOMAIN variables
              /\ variables[n].type = FirstDeclaration(n).ty

-----------------------------------------------------------------------------
(* The expression of the print statement of an expression program, and the *)
(* static types of the language: a literal has the type of its kind, an    *)
(* identifier the type it was declared with, an operation the type the     *)
(* table of static type rules gives it.                                    *)

ValueTypes == {"int", "float", "bool", "string"}

\* the table: is l op r a mismatch, for an arithmetic operator op
ArithmeticMismatch(op, l, r) ==
    IF op = "+"
    THEN \/ (l = "string") # (r = "string")
         \/ (l # "string" /\ r # "string" /\ l # r)
    ELSE l # r

RECURSIVE StaticType(_, _)
StaticType(e, tab) ==
    CASE e.k = "INTEGER" -> "int"
      [] e.k = "FLOAT" -> "float"
      [] e.k \in {"TRUE", "FALSE"} -> "bool"
      [] e.k = "STRING" -> "string"
      [] e.k = "IDENTIFIER" -> IF e.s \in DOMAIN tab THEN tab[e.s].type ELSE "unknown"
      [] e.k = "paren" -> StaticType(e.e, tab)
      [] e.k \in {"arith", "term"} ->
            IF ArithmeticMismatch(e.op, StaticType(e.l, tab), StaticType(e.r, tab))
            THEN "error" ELSE StaticType(e.l, tab)
      [] e.k \in {"cmp", "logic", "not"} -> "bool"
      [] e.k = "call" -> "int"

RECURSIVE Identifiers(_)
\* the identifiers an expression refers to
Identifiers(e) ==
    IF e.k = "IDENTIFIER" THEN {e.s}
    ELSE IF e.k \in {"paren", "not"} THEN Identifiers(e.e)
    ELSE IF e.k \in {"term", "arith", "cmp", "logic"}
    THEN Identifiers(e.l) \cup Identifiers(e.r)
    ELSE IF e.k = "call" THEN UNION { Identifiers(e.args[i]) : i \in DOMAIN e.args }
    ELSE {}

ParsedExpressionProgram == ParseEnded /\ src \in ExpressionPrograms
TopOperation == src[2].e
TopNode == ast.body[2].e
Reports(kind) == { i \in DOMAIN diags : diags[i].kind = kind }
RECURSIVE OperandTree(_)
\* the tree of an operand, as the actions build it from the trees of its parts
OperandTree(e) ==
    CASE e.k = "INTEGER" -> [k |-> "int", n |-> e.n]
      [] e.k = "FLOAT" -> [k |-> "float", n |-> FloatValue(ExprWords(e)[1])]
      [] e.k \in {"STRING", "IDENTIFIER"} -> Text(e.s)
      [] e.k = "TRUE" -> Text("true")
      [] e.k = "FALSE" -> Text("false")
      [] e.k = "paren" -> OperandTree(e.e)
      [] e.k = "term" ->
            p_term([tab |-> symbol_table, diags |-> <<>>],
                   << OperandTree(e.l), Text(e.op), OperandTree(e.r) >>).v
      [] e.k = "arith" ->
            p_arithmetic_expr([tab |-> symbol_table, diags |-> <<>>],
                              << OperandTree(e.l), Text(e.op), OperandTree(e.r) >>).v
      [] e.k = "cmp" ->
            p_comparison_expr([tab |-> symbol_table, diags |-> <<>>],
                              << OperandTree(e.l), Text(e.op), OperandTree(e.r) >>).v
      [] e.k = "logic" ->
            p_logical_expr([tab |-> symbol_table, diags |-> <<>>],
                           << OperandTree(e.l), Text(e.op), OperandTree(e.r) >>).v
      [] e.k = "not" ->
            p_logical_expr([tab |-> symbol_table, diags |-> <<>>],
                           << Text("!"), OperandTree(e.e) >>).v

-----------------------------------------------------------------------------
(* C7: when an expression refers to an identifier that no scope binds, an  *)
(* undeclared-symbol error is recorded for it, parse goes on and returns   *)
(* the tree, and the static type of the reference is unknown.              *)
C7_UndeclaredIdentifier ==
    ParsedExpressionProgram =>
        \A n \in Identifiers(TopOperation) \ DOMAIN symbol_table :
            /\ \E i \in Reports("UndeclaredVariable") : diags[i].what = n
            /\ ast.k = "program"
            /\ get_expr_type(OperandTree(Id(n)), symbol_table) = "unknown"

-----------------------------------------------------------------------------
(* C8: when the tokens violate the grammar, by an unexpected token or by   *)
(* the end of the input inside a statement, parse raises a SyntaxError to  *)
(* its caller and returns no tree.                                         *)
ViolatesGrammar == \E i \in DOMAIN src : src[i].k \in {"BAD", "TRUNC"}

C8_SyntaxErrorIsFatal ==
    (ParseEnded /\ ViolatesGrammar) => (perr = "SyntaxError" /\ ast = None)

-----------------------------------------------------------------------------
(* C9: for an arithmetic, relational or logical operator applied to        *)
(* operands of incompatible types, a type mismatch is recorded, parse goes *)
(* on, and the tree it returns holds the node of the operation, with its   *)
(* operator and the trees of both operands.                                *)
Incompatible(e, tab) ==
    /\ e.k \in {"arith", "term", "cmp", "logic"}
    /\ StaticType(e.l, tab) \in ValueTypes
    /\ StaticType(e.r, tab) \in ValueTypes
    /\ CASE e.k \in {"arith", "term"} ->
                ArithmeticMismatch(e.op, StaticType(e.l, tab), StaticType(e.r, tab))
         [] e.k = "cmp" -> StaticType(e.l, tab) # StaticType(e.r, tab)
         [] e.k = "logic" -> StaticType(e.l, tab) # "bool" \/ StaticType(e.r, tab) # "bool"

C9_MismatchKeepsNode ==
    (ParsedExpressionProgram /\ Incompatible(TopOperation, symbol_table)) =>
        /\ \E i \in Reports("TypeMismatch") : diags[i].what = TopOperation.op
        /\ ast.k = "program"
        /\ TopNode.k = (IF TopOperation.k = "cmp" THEN "comparison" ELSE "binop")
        /\ TopNode.op = TopOperation.op
        /\ TopNode.l = OperandTree(TopOperation.l)
        /\ TopNode.r = OperandTree(TopOperation.r)

-----------------------------------------------------------------------------
(* C10: for operands of static types l and r among int, float, bool and    *)
(* string, plain or nested expressions, a type mismatch is recorded for    *)
(* l + r exactly when one of the two is string, or neither is and they     *)
(* differ, and for l - r, l * r, l / r, l % r exactly when they differ;    *)
(* the static type of an accepted operation is the type of its operands.   *)
C10_ArithmeticTable ==
    (/\ ParsedExpressionProgram
     /\ TopOperation.k \in {"arith", "term"}
     /\ StaticType(TopOperation.l, symbol_table) \in ValueTypes
     /\ StaticType(TopOperation.r, symbol_table) \in ValueTypes) =>
        /\ Cardinality(Reports("TypeMismatch")) =
              (IF ArithmeticMismatch(TopOperation.op,
                                     StaticType(TopOperation.l, symbol_table),
                                     StaticType(TopOperation.r, symbol_table))
               THEN 1 ELSE 0)
        /\ Reports("TypeMismatch") = {} =>
              get_expr_type(TopNode, symbol_table) = StaticType(TopOperation.l, symbol_table)

-----------------------------------------------------------------------------
(* C11: a relational expression has static type bool, and so have &&, ||   *)
(* and ! on bool operands; hence a relational expression as an operand of  *)
(* a logical operator, or as the initializer of a bool variable, records   *)
(* no type mismatch, while a logical operator with an operand that is not  *)
(* bool records one.                                                       *)
LeftType == StaticType(TopOperation.l, symbol_table)
RightType == StaticType(TopOperation.r, symbol_table)
InnerType == StaticType(TopOperation.e, symbol_table)

C11_RelationalIsBool ==
    /\ (ParsedExpressionProgram /\ TopOperation.k = "cmp") =>
          get_expr_type(TopNode, symbol_table) = "bool"
    /\ (ParsedExpressionProgram /\ TopOperation.k = "logic"
            /\ LeftType = "bool" /\ RightType = "bool") =>
          /\ get_expr_type(TopNode, symbol_table) = "bool"
          /\ Reports("TypeMismatch") = {}
    /\ (ParsedExpressionProgram /\ TopOperation.k = "not" /\ InnerType = "bool") =>
          /\ get_expr_type(TopNode, symbol_table) = "bool"
          /\ Reports("TypeMismatch") = {}
    /\ (ParsedExpressionProgram /\ TopOperation.k = "logic"
            /\ LeftType \in ValueTypes /\ RightType \in ValueTypes
            /\ (LeftType # "bool" \/ RightType # "bool")) =>
          \E i \in Reports("TypeMismatch") : diags[i].what = TopOperation.op
    /\ (ParsedExpressionProgram /\ TopOperation.k = "not"
            /\ InnerType \in ValueTypes \ {"bool"}) =>
          \E i \in Reports("TypeMismatch") : diags[i].what = "!"
    /\ (ParseEnded /\ src \in InitializerPrograms
            /\ StaticType(src[1].e, EmptyDict) = "bool") =>
          Reports("TypeMismatch") = {}

-----------------------------------------------------------------------------
(* Lexical scoping, as the statements on scopes speak of it: a stack of    *)
(* scopes, one pushed on entering the body of a function, if, while or for *)
(* and popped on leaving it.  R.scopes is the stack, R.dups the number of  *)
(* declarations of a variable that the innermost scope already binds.      *)

RECURSIVE LexicalStmt(_, _)
RECURSIVE LexicalBody(_, _)

\* the statements of a body, one after the other
LexicalBody(body, R) ==
    IF body = <<>> THEN R
    ELSE LexicalStmt(body[Len(body)], LexicalBody(SubSeq(body, 1, Len(body) - 1), R))

\* a body in a scope of its own
InScope(body, R) ==
    [scopes |-> R.scopes,
     dups |-> LexicalBody(body, [R EXCEPT !.scopes = Append(@, {})]).dups]

LexicalStmt(s, R) ==
    IF s.k \in {"decl", "decl_init"}
    THEN IF s.name \in R.scopes[Len(R.scopes)]
         THEN [R EXCEPT !.dups = @ + 1]
         ELSE [R EXCEPT !.scopes[Len(R.scopes)] = @ \cup {s.name}]
    ELSE IF s.k \in {"if", "while", "fdecl"} THEN InScope(s.body, R)
    ELSE IF s.k = "if_else" THEN InScope(s.ebody, InScope(s.body, R))
    ELSE IF s.k = "for" THEN InScope(s.body, LexicalStmt(s.init, R))
    ELSE R

LexicalScan == LexicalBody(src, [scopes |-> << {} >>, dups |-> 0])
VariableNames == {"x", "i"}
DuplicateVariableReports ==
    { i \in Reports("DuplicateDeclaration") : diags[i].what \in VariableNames }

-----------------------------------------------------------------------------
(* C12: parse scopes names lexically.  Declaring in a body a name that an  *)
(* enclosing scope or a sibling body declares records no duplicate         *)
(* declaration: only a second declaration in the same scope is reported.   *)
(* A name declared only inside a body is not in scope after the body: the  *)
(* variables bound when parse returns are those declared at top level.     *)
C12_LexicalScoping ==
    (ParseEnded /\ src \in ControlFlowPrograms) =>
        /\ Cardinality(DuplicateVariableReports) = LexicalScan.dups
        /\ \A n \in DOMAIN symbol_table :
              symbol_table[n].type # "function" => n \in LexicalScan.scopes[1]

-----------------------------------------------------------------------------
(* C14: in a program of top-level statements, an expression that reads a   *)
(* variable declared without an initializer and not assigned so far is     *)
(* flagged as a use before initialization, and a read of a variable that   *)
(* was declared with an initializer, or assigned, is not.                  *)
Reads(s) ==
    IF s.k \in {"decl_init", "assign", "print", "return"} THEN Identifiers(s.e) ELSE {}
DeclaredBefore(n, i) ==
    \E j \in 1..(i - 1) : src[j].k \in {"decl", "decl_init"} /\ src[j].name = n
InitializedBefore(n, i) ==
    \E j \in 1..(i - 1) : src[j].k \in {"decl_init", "assign"} /\ src[j].name = n
ReadsUninitialized(n) ==
    \E i \in DOMAIN src :
        n \in Reads(src[i]) /\ DeclaredBefore(n, i) /\ ~InitializedBefore(n, i)

C14_UseBeforeInitialization ==
    (ParseEnded /\ FlatProgram) =>
        \A n \in VariableNames :
            ReadsUninitialized(n) <=>
                \E d \in Reports("UseBeforeInitialization") : diags[d].what = n

-----------------------------------------------------------------------------
(* A SymbolTable under any sequence of calls of its methods.               *)

SymbolTableInit == CompilerIdle /\ SymbolTableNew /\ LexerNew

SymbolTableNext == enter_scope \/ exit_scope \/ declare \/ assign \/ lookup

SymbolTableSpec == SymbolTableInit /\ [][SymbolTableNext]_vars

LexerInit == CompilerIdle /\ SymbolTableNew /\ LexerNew
LexerNext ==
    \/ TestBegin \/ LexIgnore \/ t_FLOAT \/ t_INTEGER \/ t_STRING \/ t_IDENTIFIER
    \/ t_newline \/ t_COMMENT \/ t_MULTILINE_COMMENT \/ LexStringRule \/ t_error
    \/ TestReturn
LexerSpec == LexerInit /\ [][LexerNext]_vars

\* the innermost scope that binds name
Binds(name) == { i \in DOMAIN tables : name \in DOMAIN tables[i] }
Innermost(name) == CHOOSE i \in Binds(name) : \A j \in Binds(name) : j <= i
Current == Len(tables)

-----------------------------------------------------------------------------
(* C13: after any sequence of calls, lookup and assign act on the binding  *)
(* of the name in the innermost scope that binds it; declare succeeds in a *)
(* scope that does not bind the name, also when an outer scope does, and   *)
(* in a scope that binds it declare raises and changes no binding.         *)
C13_Lookup ==
    st_ret'.op = "lookup" =>
        /\ tables' = tables
        /\ IF Binds(st_ret'.name) = {} THEN st_ret'.raised = "NameError"
           ELSE IF tables[Innermost(st_ret'.name)][st_ret'.name].initialized
           THEN /\ st_ret'.raised = "none"
                /\ st_ret'.value = tables[Innermost(st_ret'.name)][st_ret'.name].type
           ELSE st_ret'.raised = "ValueError"

C13_Assign ==
    st_ret'.op = "assign" =>
        IF Binds(st_ret'.name) = {}
        THEN st_ret'.raised = "NameError" /\ tables' = tables
        ELSE IF tables[Innermost(st_ret'.name)][st_ret'.name].type # st_ret'.arg
        THEN st_ret'.raised = "TypeError" /\ tables' = tables
        ELSE /\ st_ret'.raised = "none"
             /\ tables' = [tables EXCEPT
                             ![Innermost(st_ret'.name)][st_ret'.name].initialized = TRUE]

C13_Declare ==
    st_ret'.op = "declare" =>
        IF st_ret'.name \in DOMAIN tables[Current]
        THEN st_ret'.raised = "ValueError" /\ tables' = tables
        ELSE /\ st_ret'.raised = "none"
             /\ DOMAIN tables'[Current] = DOMAIN tables[Current] \cup {st_ret'.name}
             /\ tables'[Current][st_ret'.name] =
                   [type |-> st_ret'.arg, initialized |-> FALSE]
             /\ \A i \in DOMAIN tables : \A n \in DOMAIN tables[i] :
                   tables'[i][n] = tables[i][n]
             /\ Len(tables') = Len(tables)

C13_InnermostBinding == [][C13_Lookup /\ C13_Assign /\ C13_Declare]_vars

\* a name bound in two scopes with different types, and lookup has returned
\* the type of the inner binding
C13_Witness ==
    /\ Len(tables) = 2
    /\ Binds("a") = {1, 2}
    /\ tables[1]["a"].type # tables[2]["a"].type
    /\ st_ret.op = "lookup" /\ st_ret.name = "a" /\ st_ret.raised = "none"
    /\ st_ret.value = tables[2]["a"].type

-----------------------------------------------------------------------------
\* the lines that start before position p: one plus the newlines before p
LineOf(data, p) == 1 + Count(SubSeq(data, 1, p - 1), "\n")

(* C15: every token returned by Lexer.test reports the line of its first   *)
(* character: one plus the number of newline characters of the source      *)
(* before it, wherever they occur (plain, inside a block comment or inside *)
(* an earlier string literal that spans lines).                            *)
C15_LineNumbers ==
    \A k \in DOMAIN toks : toks[k].lineno = LineOf(lexdata, toks[k].lexpos)

-----------------------------------------------------------------------------
TwoCharacterOperators ==
    { [text |-> <<"=", "=">>, type |-> "EQ"], [text |-> <<"!", "=">>, type |-> "NOT_EQUAL"],
      [text |-> <<"<", "=">>, type |-> "LESS_EQUAL"], [text |-> <<">", "=">>, type |-> "GREATER_EQUAL"],
      [text |-> <<"&", "&">>, type |-> "AND"], [text |-> <<"|", "|">>, type |-> "OR"] }
PrefixOperators ==
    { [text |-> <<"=">>, type |-> "EQUALS"], [text |-> <<"!">>, type |-> "NOT"],
      [text |-> <<"<">>, type |-> "LESS_THAN"], [text |-> <<">">>, type |-> "GREATER_THAN"] }

\* the lexer stands at a token boundary before the characters of text
Stands(text) ==
    /\ lexphase = "scanning"
    /\ \A i \in DOMAIN text : At(lexdata, lexpos + i - 1) = text[i]

\* the step returns the one token op over the characters of op.text
Emits(op) ==
    /\ toks' = Append(toks, Token(op.type, op.text, lineno, lexpos))
    /\ lexpos' = lexpos + Len(op.text)

(* C16: where ==, !=, <=, >=, && or || starts at a token boundary the      *)
(* lexer returns one token EQ, NOT_EQUAL, LESS_EQUAL, GREATER_EQUAL, AND   *)
(* or OR over both characters, never two tokens of one character; where    *)
(* =, !, < or > is not followed by its completing character it returns     *)
(* EQUALS, NOT, LESS_THAN or GREATER_THAN.                                 *)
C16_TwoCharacterOperators ==
    [][ /\ \A op \in TwoCharacterOperators : Stands(op.text) => Emits(op)
        /\ \A op \in PrefixOperators :
              Stands(op.text) /\ At(lexdata, lexpos + 1) # "=" => Emits(op) ]_vars

\* == followed by = has been lexed: EQ over the first two characters, then
\* EQUALS
C16_Witness ==
    /\ lexphase = "returned"
    /\ lexdata = <<"=", "=", "=">>
    /\ Len(toks) = 2
    /\ toks[1].type = "EQ" /\ toks[1].value = <<"=", "=">>
    /\ toks[2].type = "EQUALS" /\ toks[2].lexpos = 3

-----------------------------------------------------------------------------
\* a token as Lexer.test returns it, its line counted from the line first
ReturnedToken(tok, first) ==
    [type |-> tok.type, value |-> tok.value, lineno |-> tok.lineno - first + 1]
\* the tokens of toks that start after position p
TokensAfter(p, first) ==
    LET After == SelectSeq(toks, LAMBDA tok : tok.lexpos > p)
    IN  [k \in DOMAIN After |-> ReturnedToken(After[k], first)]
\* the tokens of the rest of the input after position p, lexed by itself
TokensOfRest(p) ==
    LET Rest == Tokens(SubSeq(lexdata, p + 1, Len(lexdata)))
    IN  [k \in DOMAIN Rest |-> ReturnedToken(Rest[k], 1)]

\* a step that reports an illegal character skips that character and no more,
\* returns no token and goes on scanning
C17_SkipsOne ==
    lexdiags' # lexdiags =>
        /\ lexdiags' = Append(lexdiags, [char |-> lexdata[lexpos], lineno |-> lineno, lexpos |-> lexpos])
        /\ lexpos' = lexpos + 1
        /\ toks' = toks
        /\ lexdata' = lexdata /\ lexphase' = "scanning"

\* what test returns after an illegal character is what it returns for the
\* rest of the input
C17_RestOfInput ==
    lexphase = "returned" =>
        \A k \in DOMAIN lexdiags :
            TokensAfter(lexdiags[k].lexpos, lexdiags[k].lineno) = TokensOfRest(lexdiags[k].lexpos)

\* every turn of the loop moves on in the input, and until test has
\* returned there is a next turn or the return: the loop ends
C17_Advances ==
    lexphase = "scanning" /\ lexphase' = "scanning" =>
        lexpos' > lexpos /\ lexpos' <= Len(lexdata) + 1 /\ lexdata' = lexdata
C17_NotStuck == lexphase = "scanning" => ENABLED LexerNext
\* no rule raises: test is left by its return only
C17_RaisesNothing == lexphase # "raised"

(* C17: Lexer.test returns on every input without raising; at an illegal   *)
(* character it skips that one character and goes on, and the tokens it    *)
(* returns after the character are the tokens of the rest of the input.    *)
C17_IllegalCharacterSkipped ==
    /\ [][C17_SkipsOne /\ C17_Advances]_vars
    /\ [](C17_RestOfInput /\ C17_NotStuck /\ C17_RaisesNothing)

-----------------------------------------------------------------------------
\* a program of read statements and of prints of a string literal
IsRead(stmt) == stmt.k = "read"
IsLiteralPrint(stmt) == stmt.k = "print" /\ stmt.e.k = "STRING"
PoolProgram ==
    src # <<>> /\ \A i \in DOMAIN src : IsRead(src[i]) \/ IsLiteralPrint(src[i])
Contents == { src[i].e.s : i \in { j \in DOMAIN src : IsLiteralPrint(src[j]) } }
OccurrencesOf(content) ==
    { i \in DOMAIN src : IsLiteralPrint(src[i]) /\ src[i].e.s = content }
GlobalsIn(ns) == { i \in DOMAIN module.globals : module.globals[i].ns = ns }
\* the instructions that take the address of the global name of ns
ReferencesTo(ns, name) ==
    UNION { UNION { { <<f, b, i>> : i \in { j \in DOMAIN BlocksOf(f)[b].instrs :
                                               /\ BlocksOf(f)[b].instrs[j].op = "bitcast"
                                               /\ BlocksOf(f)[b].instrs[j].a = <<ns, name>> } }
                    : b \in DOMAIN BlocksOf(f) }
            : f \in DOMAIN module.funcs }

(* C18: the global constants are deduplicated by content.  Lowering a      *)
(* program in which a string literal or read occurs more than once         *)
(* completes; the module then holds one constant for each distinct         *)
(* content, to which every occurrence refers, and one for the format of    *)
(* read; no two globals ever bear one name.                                *)
C18_ConstantsDeduplicated ==
    /\ \A i, j \in DOMAIN module.globals :
          module.globals[i].ns = module.globals[j].ns
             /\ module.globals[i].name = module.globals[j].name => i = j
    /\ Generated /\ PoolProgram =>
          /\ gerr = "none"
          /\ { module.globals[i].name : i \in GlobalsIn("str") } = Contents
          /\ \A c \in Contents :
                Cardinality(ReferencesTo("str", c)) = Cardinality(OccurrencesOf(c))
          /\ Cardinality(GlobalsIn("scanf")) = IF \E i \in DOMAIN src : IsRead(src[i]) THEN 1 ELSE 0
          /\ Cardinality(ReferencesTo("scanf", ".str.scanf")) =
                Cardinality({ i \in DOMAIN src : IsRead(src[i]) })

-----------------------------------------------------------------------------
\* the format of a printed value by its type
FormatFor(type) ==
    CASE type \in {"int", "bool"} -> "%d"
      [] type = "float" -> "%f"
      [] type = "string" -> "%s"
FormatNames(m) == { m.globals[i].name : i \in { j \in DOMAIN m.globals : m.globals[j].ns = "fmt" } }
FormatGlobals(m) == { j \in DOMAIN m.globals : m.globals[j].ns = "fmt" }
\* the instructions op of the module m with the operands a
InstructionsOf(m, op, a) ==
    UNION { UNION { { <<f, b, i>> : i \in { j \in DOMAIN m.funcs[f].blocks[b].instrs :
                                               /\ m.funcs[f].blocks[b].instrs[j].op = op
                                               /\ m.funcs[f].blocks[b].instrs[j].a = a } }
                    : b \in DOMAIN m.funcs[f].blocks }
            : f \in DOMAIN m.funcs }
PrintfCalls(m) == InstructionsOf(m, "call", <<"printf">>)

\* the next statement is a print in a function under construction, and Z is
\* its value as lowered: the print takes the global of the format of Z from
\* the module, making it only when there is none, and calls printf once
PrintLowersOnce(Z) ==
    AtStatement("print") /\ Z.S.err = "none" =>
        /\ gerr' = "none"
        /\ FormatNames(module') = FormatNames(Z.S.module) \cup {FormatFor(Z.sty)}
        /\ Cardinality(FormatGlobals(module')) =
              Cardinality(FormatGlobals(Z.S.module))
                 + (IF FormatFor(Z.sty) \in FormatNames(Z.S.module) THEN 0 ELSE 1)
        /\ Cardinality(PrintfCalls(module')) = Cardinality(PrintfCalls(Z.S.module)) + 1
        /\ Cardinality(InstructionsOf(module', "bitcast", <<"fmt", FormatFor(Z.sty)>>)) =
              Cardinality(InstructionsOf(Z.S.module, "bitcast", <<"fmt", FormatFor(Z.sty)>>)) + 1

\* one global for each format
OneGlobalPerFormat ==
    \A i, j \in FormatGlobals(module) : module.globals[i].name = module.globals[j].name => i = j

(* C19: after any sequence of print statements the module holds one        *)
(* format-string global for each distinct format used (decimal for int     *)
(* and bool, the float format for float, the string format for string): a  *)
(* print whose format has a global reuses it and creates none, and each    *)
(* print emits one call of printf.                                         *)
C19_FormatGlobals ==
    /\ [][PrintLowersOnce(_generate_expression(NextStmt.e, GS))]_vars
    /\ [](OneGlobalPerFormat)

-----------------------------------------------------------------------------
RECURSIVE LoweredInOrder(_, _)
\* the generator state after the arguments are lowered one by one from the
\* first to the last
LoweredInOrder(args, S) ==
    IF args = <<>> THEN S
    ELSE LoweredInOrder(Tail(args), _generate_expression(Head(args), S).S)

ModuleFunctions(name) == { f \in DOMAIN module.funcs : module.funcs[f].name = name }
\* the function a call of name is bound to, 0 when nothing declares name
Callee(name) ==
    IF name \in DOMAIN functions THEN functions[name].func
    ELSE IF name = "printf" THEN PrintfIndex
    ELSE IF name = "scanf" THEN ScanfIndex
    ELSE IF ModuleFunctions(name) # {} THEN CHOOSE f \in ModuleFunctions(name) : TRUE
    ELSE 0

CallOf(S, f, n) ==
    Insert(S, [op |-> "call", a |-> <<S.module.funcs[f].name>>, t |-> <<f>>, n |-> n])

\* the next statement is a call, and L is the state after its arguments,
\* lowered without an exception
CallResolved(L) ==
    AtStatement("function_call") /\ L.err = "none" =>
        IF Callee(NextStmt.name) = 0
        THEN gerr' # "none" /\ phase' = "done" /\ module' = L.module
        ELSE \/ gerr' = "none" /\ phase' = phase /\ module' = CallOf(L, Callee(NextStmt.name), Len(NextStmt.args)).module
             \/ gerr' \in {"TypeError", "IndexError"} /\ phase' = "done" /\ module' = L.module

(* C20: a call is lowered by lowering its arguments from left to right and *)
(* binding the callee to a function the program declared, else to printf   *)
(* or scanf, else to a symbol the module declares; when there is none      *)
(* of these, code generation aborts and generate returns no module.        *)
C20_CallLowering == [][CallResolved(LoweredInOrder(NextStmt.args, GS))]_vars

\* the call of h, which nothing declares, has ended generate with an
\* exception
C20_Witness ==
    /\ Generated /\ gerr = "KeyError"
    /\ src = << CallS("h", <<>>) >>
    /\ \A f \in DOMAIN module.funcs : module.funcs[f].name # "h"

-----------------------------------------------------------------------------
\* the instructions of the module m, and its stores into the slot ptr
AllInstructions(m) ==
    UNION { UNION { { <<f, b, i>> : i \in DOMAIN m.funcs[f].blocks[b].instrs }
                    : b \in DOMAIN m.funcs[f].blocks }
            : f \in DOMAIN m.funcs }
StoresInto(m, ptr) ==
    { p \in AllInstructions(m) :
         /\ p[1] = ptr.fn
         /\ m.funcs[p[1]].blocks[p[2]].instrs[p[3]].op = "store"
         /\ m.funcs[p[1]].blocks[p[2]].instrs[p[3]].t = <<ptr.id>> }
StoredType(m, p) == m.funcs[p[1]].blocks[p[2]].instrs[p[3]].a[2]

\* the next statement is an assignment, and V is its expression as lowered
\* without an exception
AssignmentLowered(V) ==
    AtStatement("assignment") /\ V.S.err = "none" =>
        IF NextStmt.name \notin DOMAIN variables
        THEN gerr' # "none" /\ phase' = "done"
        ELSE /\ gerr' = "none"
             /\ variables' = variables
             /\ Cardinality(StoresInto(module', variables[NextStmt.name].ptr)) =
                   Cardinality(StoresInto(V.S.module, variables[NextStmt.name].ptr)) + 1
             /\ \A p \in StoresInto(module', variables[NextStmt.name].ptr) :
                   StoredType(module', p) = variables[NextStmt.name].ptr.lty
             /\ Cardinality(AllInstructions(module')) =
                   Cardinality(AllInstructions(V.S.module)) + 1
                      + (IF V.sty # variables[NextStmt.name].type THEN 1 ELSE 0)

(* C21: an assignment to a name without a slot in the active bindings      *)
(* aborts code generation; otherwise it emits one store into the name's    *)
(* slot, of the value of the expression converted to the declared type of  *)
(* the slot when the two types differ, and leaves the bindings unchanged.  *)
C21_AssignmentLowering == [][AssignmentLowered(_generate_expression(NextStmt.e, GS))]_vars

-----------------------------------------------------------------------------
ArithmeticOperators == {"+", "-", "*", "/", "%"}
\* the instruction of an operator on int operands and on float operands; the
\* text of a comparison shows its second operand, ref
IntegerInstruction(kind, op, ref) ==
    IF kind = "comparison" THEN Ins("icmp", <<op, "i32", ref>>)
    ELSE [op |-> CASE op = "+" -> "add" [] op = "-" -> "sub" [] op = "*" -> "mul"
                   [] op = "/" -> "sdiv" [] op = "%" -> "srem",
          a |-> <<"i32">>, t |-> <<>>]
FloatInstruction(kind, op, ref) ==
    IF kind = "comparison" THEN Ins("fcmp", <<op, "float", ref>>)
    ELSE [op |-> CASE op = "+" -> "fadd" [] op = "-" -> "fsub" [] op = "*" -> "fmul"
                   [] op = "/" -> "fdiv" [] op = "%" -> "frem",
          a |-> <<"float">>, t |-> <<>>]
\* what an operation on operands of the types l and r is lowered to, after
\* its operands
OperationInstructions(kind, op, O) ==
    IF O.L.sty = "int" /\ O.R.sty = "int" THEN << IntegerInstruction(kind, op, Reference(O.R)) >>
    ELSE IF O.L.sty = "float" /\ O.R.sty = "float"
    THEN << FloatInstruction(kind, op, Reference(O.R)) >>
    ELSE << Ins("sitofp", <<"i32">>),
            FloatInstruction(kind, op, IF O.R.sty = "int" THEN "float" ELSE Reference(O.R)) >>
OperationType(kind, l, r) ==
    IF kind = "comparison" THEN "bool" ELSE IF l = "int" /\ r = "int" THEN "int" ELSE "float"

Numeric(V) == V.sty \in {"int", "float"}
IsNumericOperation(e) ==
    \/ e.k = "binop" /\ e.op \in ArithmeticOperators
    \/ e.k = "comparison"

\* the next statement prints an arithmetic operation or a comparison, and O
\* is its two operands as lowered, int or float each: the operation follows
\* them in the block, an int operand beside a float one converted first
OperationLowered(e, O) ==
    AtStatement("print") /\ IsNumericOperation(e) /\ O.R.S.err = "none"
       /\ Numeric(O.L) /\ Numeric(O.R) =>
        /\ _generate_expression(e, GS).sty = OperationType(e.k, O.L.sty, O.R.sty)
        /\ IsPrefix(CurBlock(O.R.S).instrs
                       \o OperationInstructions(e.k, e.op, O),
                    BlocksNext[Cursor].instrs)

(* C22: in an arithmetic operation or a comparison with one int and one    *)
(* float operand, in either order, the int operand is converted by sitofp  *)
(* before the operation, the float instruction is selected and the result  *)
(* is float (bool for a comparison); with two int operands no conversion   *)
(* is emitted and the integer instruction is selected, the result int.     *)
C22_NumericPromotion == [][OperationLowered(NextStmt.e, LowerOperands(NextStmt.e, GS))]_vars

\* print(1 + 2.5) has been lowered: the int operand converted, then fadd
C22_Witness ==
    /\ Returned
    /\ src = << DeclInit("int", "x", I1), PrintS(Bin("arith", "+", I1, F25)) >>
    /\ \E f \in DefinedFunctions : \E b \in DOMAIN BlocksOf(f) :
          \E i \in DOMAIN BlocksOf(f)[b].instrs :
             /\ BlocksOf(f)[b].instrs[i] = Ins("sitofp", <<"i32">>)
             /\ BlocksOf(f)[b].instrs[i + 1] = Ins("fadd", <<"float">>)

-----------------------------------------------------------------------------
\* an operation with a call as an operand, outside parentheses
IsOperation(e) == e.k \in {"term", "arith", "cmp", "logic"}
HasCallOperand(e) == IsOperation(e) /\ (e.l.k = "call" \/ e.r.k = "call")
CallNode(cst, node) == cst.k = "call" => node.k = "function_call" /\ node.name = cst.name

(* C23: a function call is accepted wherever a primary is: as an operand   *)
(* of an arithmetic, relational or logical operator, without parentheses   *)
(* around it, it parses without a syntax error and the tree holds the node *)
(* of the operator with the function_call node as its operand.             *)
C23_CallIsPrimary ==
    ParseEnded /\ ~ViolatesGrammar =>
        \A i \in DOMAIN src :
            src[i].k = "print" /\ HasCallOperand(src[i].e) =>
                /\ Reports("SyntaxError") = {}
                /\ ast.k = "program" /\ i \in DOMAIN ast.body
                /\ ast.body[i].k = "print"
                /\ ast.body[i].e.k \in {"binop", "comparison"}
                /\ ast.body[i].e.op = src[i].e.op
                /\ CallNode(src[i].e.l, ast.body[i].e.l)
                /\ CallNode(src[i].e.r, ast.body[i].e.r)

-----------------------------------------------------------------------------
(* C24: parsing is stateless per invocation: a second call of parse on the *)
(* same Parser with the same source returns the tree and the symbol table  *)
(* the first call returned and prints the same diagnostics, line numbers   *)
(* included.                                                               *)

ParseReturned == phase = "generate" /\ frames = <<>> /\ gerr = "none"
SecondCall == earlier # None

C24_ParseStateless ==
    (ParseReturned /\ SecondCall) =>
        /\ ast = earlier.ast
        /\ symbol_table = earlier.symbol_table
        /\ diags = earlier.diags

C24_SameTreeAndTable ==
    (ParseReturned /\ SecondCall) =>
        /\ ast = earlier.ast
        /\ symbol_table = earlier.symbol_table
        /\ Len(diags) = Len(earlier.diags)

-----------------------------------------------------------------------------
(* C25: while a function body is lowered the bindings hold only that       *)
(* function's parameters and the names declared in its body; when          *)
(* _generate_function_declaration returns, the current function, the       *)
(* cursor and the bindings are those before the call, so the names of the  *)
(* body are not bound afterwards and the cursor is in the block that was   *)
(* current before the declaration.                                         *)

RECURSIVE DeclaredIn(_)
RECURSIVE DeclaredBy(_)
\* the names the statements of a body declare, a nested function's left out
DeclaredIn(body) == UNION { DeclaredBy(body[i]) : i \in DOMAIN body }

DeclaredBy(s) ==
    IF s.k \in {"declaration", "declaration_init"} THEN {s.name}
    ELSE IF s.k \in {"if", "while_loop"} THEN DeclaredIn(s.body)
    ELSE IF s.k = "if_else" THEN DeclaredIn(s.body) \cup DeclaredIn(s.ebody)
    ELSE IF s.k = "for_loop" THEN DeclaredBy(s.init) \cup DeclaredIn(s.body)
    ELSE {}

BodyFrames == { j \in DOMAIN frames : frames[j].h = "function_declaration" }
LoweredFunction == frames[CHOOSE j \in BodyFrames : \A k \in BodyFrames : k <= j]
ParamNames(params) == { params[i].name : i \in DOMAIN params }
InBody == phase = "generate" /\ gerr = "none" /\ BodyFrames # {}

BodyBindings ==
    InBody =>
        /\ function = FunctionRef(LoweredFunction.func)
        /\ builder.fn = LoweredFunction.func
        /\ DOMAIN variables \subseteq ParamNames(LoweredFunction.params) \cup DeclaredIn(LoweredFunction.body)

BuilderState == [builder |-> builder, function |-> function, variables |-> variables]
SavedIn(fr) == [builder |-> fr.old_builder, function |-> fr.old_function,
                variables |-> fr.old_variables]

\* the call has got to the loop over the body
DeclarationEntered ==
    /\ Len(frames') = Len(frames) + 1
    /\ frames'[Len(frames')].h = "function_declaration"
\* the call returns
DeclarationReturns ==
    /\ BodyDone("function_declaration")
    /\ gerr' = "none"
    /\ Len(frames') = Len(frames) - 1

\* a running declaration keeps what it saved
SavedKept ==
    \A j \in BodyFrames :
        j <= Len(frames') => /\ frames'[j].h = "function_declaration"
                             /\ SavedIn(frames'[j]) = SavedIn(frames[j])

C25_FunctionFrame ==
    /\ [](BodyBindings)
    /\ [][/\ DeclarationEntered => SavedIn(frames'[Len(frames')]) = BuilderState
          /\ SavedKept
          /\ DeclarationReturns => /\ BuilderState' = SavedIn(Top)
                                   /\ DOMAIN variables' = DOMAIN Top.old_variables]_vars

\* a declaration whose body declared x as a float has returned to a caller
\* that had x bound as an int and a cursor: x is the int again
C25_Witness ==
    /\ BodyDone("generate")
    /\ HasCursor
    /\ Len(Top.body) = 2
    /\ Top.body[1].k = "declaration_init"
    /\ Top.body[2].k = "function_declaration"
    /\ DeclaredIn(Top.body[2].body) = {"x"}
    /\ "x" \in DOMAIN variables
    /\ variables["x"].type = "int"

-----------------------------------------------------------------------------
(* C26: _convert_type(value, from, to) returns the value and emits nothing *)
(* when from equals to; emits sitofp for int to float, fptosi for float to *)
(* int, zext for bool to int and an icmp != 0 for int to bool; for every   *)
(* other pair it returns the value it was given, records a warning and     *)
(* does not raise.                                                         *)

Conversions ==
    { [from_type |-> "int", to_type |-> "float", ins |-> Ins("sitofp", <<conv.value>>), lty |-> "float"],
      [from_type |-> "float", to_type |-> "int", ins |-> Ins("fptosi", <<conv.value>>), lty |-> "i32"],
      [from_type |-> "bool", to_type |-> "int", ins |-> Ins("zext", <<conv.value>>), lty |-> "i32"],
      [from_type |-> "int", to_type |-> "bool", ins |-> Ins("icmp", <<"!=", conv.value, "integer">>), lty |-> "i1"] }
ConversionOf(c) ==
    { x \in Conversions : x.from_type = c.from_type /\ x.to_type = c.to_type }
Warnings(ds) == SelectSeq(ds, LAMBDA d : d.kind = "Warning")

\* the call returns the value it was given and emits nothing
ValueReturned ==
    /\ gerr' = "none"
    /\ conv'.at = "return"
    /\ conv'.result = conv.value
    /\ module' = module

ConvertTypeCalled == conv # None /\ conv.at = "call" /\ conv' # conv

C26_ConvertType ==
    [][ConvertTypeCalled =>
        IF conv.from_type = conv.to_type
        THEN ValueReturned /\ diags' = diags
        ELSE IF ConversionOf(conv) # {}
        THEN HasCursor =>
                LET x == CHOOSE x \in ConversionOf(conv) : TRUE
                IN  /\ gerr' = "none"
                    /\ conv'.at = "return"
                    /\ conv'.result = x.lty
                    /\ Added(Cursor) = << x.ins >>
                    /\ \A b \in DOMAIN Blocks : b # Cursor => BlocksNext[b] = Blocks[b]
                    /\ diags' = diags
        ELSE /\ ValueReturned
             /\ Len(Warnings(diags')) = Len(Warnings(diags)) + 1]_vars

\* a string was to be converted to an int, with a cursor: the call returned
C26_Witness ==
    /\ conv # None
    /\ conv.at = "return"
    /\ conv.from_type = "string"
    /\ conv.to_type = "int"
    /\ HasCursor
    /\ Warnings(diags) # <<>>

-----------------------------------------------------------------------------
(* C27: whenever generate lowers a top-level statement that is not a       *)
(* function declaration, a current function and an insertion cursor are    *)
(* defined, also in a program that defines main; generate does not fail    *)
(* on an undefined cursor.                                                 *)

AtTopLevelStatement ==
    /\ HasNext
    /\ Top.h = "generate"
    /\ NextStmt.k \notin {"None", "function_declaration"}

C27_CursorDefined ==
    /\ AtTopLevelStatement => HasCursor
    /\ Generated => gerr # "AttributeError"

-----------------------------------------------------------------------------
(* C28: while Parser.parse analyses a function body, a reference to one of *)
(* the function's parameters has the parameter's declared type: for a      *)
(* parameter int a, the expression a + 1 in the body records no            *)
(* TypeMismatch and yields the node binop(+, a, 1).                        *)

ParameterPlusOne == Bin("arith", "+", Id("a"), I1)
ParsedParameterPlusOne ==
    /\ ParseEnded
    /\ src = << FDecl("g", << ParamA >>, << ReturnS(ParameterPlusOne) >>) >>

C28_ParameterTyped ==
    ParsedParameterPlusOne =>
        /\ Reports("TypeMismatch") = {}
        /\ ast.body[1].body[1].e =
              [k |-> "binop", op |-> "+", l |-> OperandTree(Id("a")), r |-> OperandTree(I1)]

-----------------------------------------------------------------------------
(* C29: a call inside a function body to the function being lowered        *)
(* resolves to that function and code generation does not abort, whereas   *)
(* a call to a function whose declaration appears later in the source is   *)
(* unresolvable at the point of the call.                                  *)

\* the call the next statement makes: the statement, or the value it returns
IsCall(s) == s.k = "function_call" \/ (s.k = "return" /\ s.e.k = "function_call")
TheCall(s) == IF s.k = "function_call" THEN s ELSE s.e
AtCall == HasNext /\ IsCall(NextStmt) /\ HasCursor

\* the calls of the function f among the instructions a step added at the cursor
CallsAdded(f) ==
    { i \in DOMAIN Added(Cursor) : Added(Cursor)[i].op = "call" /\ Added(Cursor)[i].t = <<f>> }

\* the arguments, lowered to A, are those the function f declares
ArgumentsFit(A, f) == A.S.err = "none" /\ A.ltys = module.funcs[f].params

SelfCall(A) ==
    /\ AtCall
    /\ InBody
    /\ TheCall(NextStmt).name = LoweredFunction.func_name
    /\ ArgumentsFit(A, LoweredFunction.func)

FunctionsOfSource ==
    { ast.body[i].name : i \in { j \in DOMAIN ast.body : ast.body[j].k = "function_declaration" } }
\* the source declares the function, and its declaration has not been reached
DeclaredLater(name) ==
    /\ name \in FunctionsOfSource
    /\ \A f \in DOMAIN module.funcs : module.funcs[f].name # name

CallOfLater(A) ==
    /\ AtCall
    /\ DeclaredLater(TheCall(NextStmt).name)
    /\ A.S.err = "none"

CallsResolve(A) ==
    /\ SelfCall(A) => /\ gerr' = "none"
                       /\ CallsAdded(LoweredFunction.func) # {}
    /\ CallOfLater(A) => /\ gerr' # "none"
                          /\ phase' = "done"
                          /\ \A f \in DOMAIN module.funcs : CallsAdded(f) = {}

C29_Recursion == [][CallsResolve(GenerateArgs(TheCall(NextStmt).args, GS))]_vars

\* g has called itself in its body, and generate has returned
C29_Witness ==
    /\ Returned
    /\ src = << FDecl("g", << ParamA >>, << CallS("g", << I1 >>) >>) >>
    /\ \E f \in DOMAIN module.funcs :
          /\ module.funcs[f].name = "g"
          /\ \E i \in DOMAIN module.funcs[f].blocks[1].instrs :
                /\ module.funcs[f].blocks[1].instrs[i].op = "call"
                /\ module.funcs[f].blocks[1].instrs[i].t = <<f>>

\* g has called h, declared after g: generate has ended with an exception
C29_WitnessLater ==
    /\ Generated /\ gerr # "none"
    /\ src = << FDecl("g", << ParamA >>, << CallS("h", <<>>) >>), FDecl("h", <<>>, <<>>) >>

-----------------------------------------------------------------------------
(* C30: after any sequence of enter_scope and exit_scope calls, surplus    *)
(* exit_scope calls included, the stack holds at least one scope and the   *)
(* outermost scope with its bindings is never removed; the depth is one    *)
(* plus the number of enter_scope calls not yet matched by an effective    *)
(* exit_scope.                                                             *)

\* a call was made (one that repeats the last call leaves st_ret as it was)
SymbolTableStep == tables' # tables \/ st_ret' # st_ret
Depth == Len(tables)

\* the bindings of the outermost scope stay, with their types
OutermostKept ==
    /\ Len(tables') >= 1
    /\ DOMAIN tables[1] \subseteq DOMAIN tables'[1]
    /\ \A n \in DOMAIN tables[1] : tables'[1][n].type = tables[1][n].type

\* the depth goes up by one on enter_scope, down by one on an exit_scope
\* that has a scope to leave, and stays on a surplus exit_scope and on
\* every other call
DepthCounts ==
    /\ st_ret'.op = "enter_scope" => Len(tables') = Depth + 1 /\ IsPrefix(tables, tables')
    /\ st_ret'.op = "exit_scope" =>
          IF Depth > 1 THEN Len(tables') = Depth - 1 /\ IsPrefix(tables', tables)
          ELSE tables' = tables
    /\ st_ret'.op \notin {"enter_scope", "exit_scope"} => Len(tables') = Depth

C30_ScopeStack ==
    /\ [](Depth >= 1)
    /\ [][SymbolTableStep => OutermostKept /\ DepthCounts]_vars

\* one more exit_scope than enter_scope, after a declaration in the outermost
\* scope: the scope and the binding are still there
C30_Witness ==
    /\ st_ret.op = "exit_scope"
    /\ Depth = 1
    /\ DOMAIN tables[1] # {}

=============================================================================
